---- MODULE Spec2Model ----
(***************************************************************************)
(* Delivery and resilience pipeline of the error tracker SDK:              *)
(*   BaseHub.applyBeforeSend           packages/core/src/hub.ts            *)
(*   BrowserClient (sendEvent, enqueue, flushQueue, sendPendingViaBeacon,  *)
(*   browser listeners)                packages/browser/src/client.ts      *)
(*   NodeClient.sendEvent              packages/node/src/client.ts         *)
(*                                                                         *)
(* One client is modelled, of either runtime.  Every await of the code is  *)
(* a suspension point: an async handler is split into one action per       *)
(* synchronous segment.  Transport results, hook results and browser       *)
(* events are inputs of the environment.                                   *)
(***************************************************************************)
EXTENDS Integers, Sequences, FiniteSets, TLC

\* ---------------------------------------------------------------- constants

\* const MAX_QUEUE_SIZE = 100;
MAX_QUEUE_SIZE == 100

\* ------------------------------------------------------------------- bounds

\* Number of captureException / captureMessage calls of one behaviour.
MaxCaptures == 2

\* The same, of a behaviour that starts with a queue at capacity (SpecCapacity).
MaxCapturesAtCapacity == 1

\* Largest queue found in localStorage at construction (Spec).
MaxInitQueue == 3

\* Number of enqueue calls of the fill scenario (SpecFill).
FillCount == 101

\* Capture calls and largest initial queue of a behaviour whose localStorage
\* may be faulty (SpecFaults).
MaxCapturesFaults == 2

MaxInitQueueFaults == 1

\* Number of Transport.send calls of one behaviour (SpecTransport).
MaxSends == 2

\* Number of clients the module's init constructs in one behaviour (SpecModule).
MaxClients == 2

\* Number of scope calls (setUser, setTag, setTags, setExtra, setExtras) and
\* of buildEvent calls of one behaviour (SpecHub).
MaxScopeCalls == 2

MaxBuilds == 2

\* Calls of getConfig().update in the reconfiguration scenario.
MaxUpdates == 2

\* Clients the host constructs itself in the hooks scenario.
MaxHookClients == 3

\* Failing requests of the express scenario.
MaxRequests == 3

\* Overlapping capture calls of the concurrency scenario.
MaxConcurrent == 2

\* captureMessage calls of the delivery scenario.
MaxDeliveries == 1

\* Exceptions that go uncaught in one Node process.
MaxUncaught == 2

\* Requests that pass through requestHandler.
MaxRouted == 2

\* Stored events and capture calls of the scenario whose sends all resolve.
MaxDrainQueue == 2
MaxDrainCaptures == 1

\* --------------------------------------------------------------- the values

\* An ErrorEvent, reduced to its identity and to whether it still is the
\* object buildEvent assembled ("built") or one a beforeSend hook returned in
\* its place ("changed").
BuiltEvent(n) == [id |-> n, body |-> "built"]

\* The absent values a beforeSend hook may return.
Null == [id |-> 0, body |-> "null"]

Undefined == [id |-> 0, body |-> "undefined"]

\* No event: the send argument of a capture that never called the transport.
NoEvent == [id |-> 0, body |-> "none"]

\* JavaScript's !value on what applyBeforeSend resolves to.
Falsy(v) == v \in {Null, Undefined}

\* The events found in localStorage at construction: n entries, oldest first.
Persisted(n) == [i \in 1..n |-> BuiltEvent(i)]

\* The event of the k-th capture call.
CapturedEvent(k) == BuiltEvent(MAX_QUEUE_SIZE + k)

Range(s) == {s[i] : i \in 1..Len(s)}

Min(a, b) == IF a < b THEN a ELSE b

\* The object {}: an object is a mapping from its keys to their values.
EmptyObject == [k \in {} |-> "undefined"]

\* What a configured beforeSend does with the event on one invocation
\* ("unset": no hook is configured).
HookOutcomes == {"unset", "same", "changed", "null", "undefined", "throws", "rejects"}

\* What a transport send resolves to: FetchTransport / NodeTransport never
\* reject; a 2xx answer may carry no id.
SendResults == {"success_id", "success_noid", "failure"}

Success(r) == r \in {"success_id", "success_noid"}

VARIABLES
    runtime,            \* which client class was constructed
    storage,            \* localStorage: "ok", "quota" (setItem throws) or
                        \* "unavailable" (every access throws)
    queue,              \* localStorage[QUEUE_KEY], parsed: oldest first
    isProcessingQueue,  \* BrowserClient.isProcessingQueue
    drains,             \* suspended flushQueue invocations
    captures,           \* the capture calls: position and locals
    last,               \* history: the step just taken
    request,            \* one Transport.send call: its position and result
    client,             \* the module-level singleton of index.ts (0: null)
    clients,            \* the clients the module's init has constructed
    window,             \* window.onerror, and the originalOnError each
                        \* setupGlobalHandlers call has saved
    scope,              \* BaseHub.scope: references to its tags, user, extras
    heap,               \* the objects scope and the built events refer to
    built               \* the events buildEvent has returned

vars == <<runtime, storage, queue, isProcessingQueue, drains, captures, last,
          request, client, clients, window, scope, heap, built>>

\* The capture pipeline and the offline queue of one client.
pipelineVars == <<runtime, storage, queue, isProcessingQueue, drains, captures>>

\* One call of a transport's send.
transportVars == <<request>>

\* The module-level API: init, close and the singleton.
moduleVars == <<client, clients, window>>

\* The scope of one hub and the events built from it.
hubVars == <<scope, heap, built>>

\* ------------------------------------------------------------ QueueStorage

\* createLocalStorageQueue().get: [] when getItem or JSON.parse throws.
QueueGet == IF storage = "unavailable" THEN <<>> ELSE queue

QueueSetUnguarded(events) == events

\* createLocalStorageQueue().set: a throwing setItem is ignored.
QueueSet(events) == IF storage = "ok" THEN events ELSE queue

\* createLocalStorageQueue().clear: a throwing removeItem is ignored.
QueueClear == IF storage = "unavailable" THEN queue ELSE <<>>

\* ----------------------------------------------------------------- enqueue

EvictOffByOne(events) == Len(events) > MAX_QUEUE_SIZE

\* if (events.length >= MAX_QUEUE_SIZE)
AtCapacity(events) == Len(events) >= MAX_QUEUE_SIZE

EnqueuedEvictsNewest(events, event) ==
    IF AtCapacity(events) THEN Append(SubSeq(events, 1, Len(events) - 1), event)
    ELSE Append(events, event)

\* The array enqueue hands to queue.set: shift the oldest when at capacity,
\* then push.
Enqueued(events, event) ==
    Append(IF AtCapacity(events) THEN Tail(events) ELSE events, event)

EnqueueOverwrites(event) == QueueSet(<<event>>)

\* BrowserClient.enqueue: get, shift, push, set.
Enqueue(event) == QueueSet(Enqueued(QueueGet, event))

\* ----------------------------------------------------------- applyBeforeSend

BeforeSendFailureDrops(outcome, event) ==
    CASE outcome = "changed"   -> [event EXCEPT !.body = "changed"]
      [] outcome \in {"null", "throws", "rejects"} -> Null
      [] outcome = "undefined" -> Undefined
      [] OTHER                 -> event

BeforeSendKeepsDropped(outcome, event) ==
    CASE outcome = "changed"   -> [event EXCEPT !.body = "changed"]
      [] outcome = "null"      -> Null
      [] OTHER                 -> event

BeforeSendDiscardsChange(outcome, event) ==
    CASE outcome = "null"      -> Null
      [] outcome = "undefined" -> Undefined
      [] OTHER                 -> event

\* BaseHub.applyBeforeSend: the hook's value, or the event itself when no hook
\* is configured or the hook throws or rejects.
ApplyBeforeSend(outcome, event) ==
    CASE outcome = "unset"     -> event
      [] outcome = "same"      -> event
      [] outcome = "changed"   -> [event EXCEPT !.body = "changed"]
      [] outcome = "null"      -> Null
      [] outcome = "undefined" -> Undefined
      [] outcome = "throws"    -> event
      [] outcome = "rejects"   -> event

\* ------------------------------------------------------------------ history

\* The record of a flushQueue invocation: none has returned in this step.
NoDrain == [done |-> FALSE, events |-> <<>>, sent |-> <<>>, failedAt |-> 0, enq |-> <<>>, unloaded |-> FALSE, wrote |-> FALSE, before |-> <<>>]

\* The step just taken: the handler segment that ran (op), how a flushQueue
\* call in it began (flush), the capture it belongs to (cap) with the hook's
\* outcome and the value of navigator.onLine it read, the event handed on and
\* the transport's answer, the record of the flushQueue invocation that
\* returned in it (drain), and the events handed to the beacon transport in it
\* (beaconed).
Step(op) == [op |-> op, flush |-> "none", cap |-> 0, hook |-> "none", onLine |-> TRUE, event |-> NoEvent, response |-> "none", drain |-> NoDrain, beaconed |-> <<>>]

\* ------------------------------------------------------------------ captures

IdleCapture == [pc |-> "idle", event |-> NoEvent, sent |-> NoEvent, result |-> "pending"]

FailureNeverQueues(rt) == FALSE

\* A transport failure in sendEvent: the browser client queues the event, the
\* Node client has no queue.
FailureQueues(rt) == rt = "browser"

OfflineGateIgnored(rt, onLine) == FALSE

\* sendEvent's offline gate: typeof navigator !== 'undefined' && !navigator.onLine
OfflineGate(rt, onLine) == rt = "browser" /\ ~onLine

\* Every suspended drain sees the enqueue as one made since its read.
NoteEnqueue(event) ==
    [d \in 1..Len(drains) |-> [drains[d] EXCEPT !.enq = Append(@, event)]]

\* captureException / captureMessage up to the first await: buildEvent, then
\* sendEvent calls applyBeforeSend, which calls the hook.
CaptureStart(k) ==
    /\ captures[k].pc = "idle"
    /\ IF k = 1 THEN TRUE ELSE captures[k - 1].pc # "idle"
    /\ captures' = [captures EXCEPT ![k] =
                       [@ EXCEPT !.pc = "beforeSend", !.event = CapturedEvent(k)]]
    /\ last' = [Step("capture") EXCEPT !.cap = k, !.event = CapturedEvent(k)]
    /\ UNCHANGED <<runtime, storage, queue, isProcessingQueue, drains>>
    /\ UNCHANGED <<transportVars, moduleVars, hubVars>>

SafeExecuteRethrows(settled) == IF settled = "throws" THEN "rejected" ELSE settled

\* safeExecuteAsync(fn, null): what the promise a capture call returned settles
\* to, given how fn settled: the fallback null when fn threw or rejected.
SafeExecuteAsync(settled) == IF settled = "throws" THEN "null" ELSE settled

\* captureException / captureMessage whose callback throws before sendEvent is
\* called: normalizeError (String(error) of an object without toString),
\* buildEvent, navigator.userAgent or parseStackTrace.  safeExecuteAsync
\* catches it.
CaptureThrows(k) ==
    /\ captures[k].pc = "idle"
    /\ IF k = 1 THEN TRUE ELSE captures[k - 1].pc # "idle"
    /\ captures' = [captures EXCEPT ![k] =
                       [@ EXCEPT !.pc = "done", !.result = SafeExecuteAsync("throws")]]
    /\ last' = [Step("capture.threw") EXCEPT !.cap = k]
    /\ UNCHANGED <<runtime, storage, queue, isProcessingQueue, drains>>
    /\ UNCHANGED <<transportVars, moduleVars, hubVars>>

\* sendEvent after "await this.applyBeforeSend(event)": drop, queue when
\* offline, or call transport.send.  onLine is the value of navigator.onLine
\* at that moment: the browser changes it at will, and no listener of the
\* client runs when it turns false.
BeforeSendSettle(k, outcome, onLine) ==
    /\ captures[k].pc = "beforeSend"
    /\ LET processedEvent == ApplyBeforeSend(outcome, captures[k].event)
       IN  IF Falsy(processedEvent)
           THEN /\ captures' = [captures EXCEPT ![k] =
                       [@ EXCEPT !.pc = "done", !.result = "null"]]
                /\ last' = [Step("sendEvent.dropped") EXCEPT !.cap = k,
                               !.hook = outcome, !.event = processedEvent]
                /\ UNCHANGED <<queue, drains>>
           ELSE IF OfflineGate(runtime, onLine)
           THEN /\ queue' = Enqueue(processedEvent)
                /\ drains' = NoteEnqueue(processedEvent)
                /\ captures' = [captures EXCEPT ![k] =
                       [@ EXCEPT !.pc = "done", !.result = "null"]]
                /\ last' = [Step("sendEvent.offline") EXCEPT !.cap = k,
                               !.hook = outcome, !.onLine = onLine,
                               !.event = processedEvent]
           ELSE /\ captures' = [captures EXCEPT ![k] =
                       [@ EXCEPT !.pc = "send", !.sent = processedEvent]]
                /\ last' = [Step("sendEvent.send") EXCEPT !.cap = k,
                               !.hook = outcome, !.onLine = onLine,
                               !.event = processedEvent]
                /\ UNCHANGED <<queue, drains>>
    /\ UNCHANGED <<runtime, storage, isProcessingQueue>>
    /\ UNCHANGED <<transportVars, moduleVars, hubVars>>

\* sendEvent after "await this.transport.send(processedEvent)".
SendSettle(k, r) ==
    /\ captures[k].pc = "send"
    /\ IF ~Success(r)
       THEN /\ IF FailureQueues(runtime)
               THEN /\ queue' = Enqueue(captures[k].sent)
                    /\ drains' = NoteEnqueue(captures[k].sent)
               ELSE UNCHANGED <<queue, drains>>
            /\ captures' = [captures EXCEPT ![k] =
                   [@ EXCEPT !.pc = "done", !.result = "null"]]
       ELSE /\ captures' = [captures EXCEPT ![k] =
                   [@ EXCEPT !.pc = "done",
                             !.result = IF r = "success_id" THEN "id" ELSE "null"]]
            /\ UNCHANGED <<queue, drains>>
    /\ last' = [Step("sendEvent.settled") EXCEPT !.cap = k,
                   !.event = captures[k].sent, !.response = r]
    /\ UNCHANGED <<runtime, storage, isProcessingQueue>>
    /\ UNCHANGED <<transportVars, moduleVars, hubVars>>

\* --------------------------------------------------------------- flushQueue

GuardMissing(flag) == FALSE

\* if (this.isProcessingQueue) return;
DrainInProgress(flag) == flag

\* A flushQueue invocation suspended in "await this.transport.send(event)":
\* its locals (events, the loop position idx) and, as history, the events it
\* called send on, the events enqueued and whether the unload flush ran since
\* its read of the queue.
StartedDrain(events) == [events |-> events, idx |-> 1, sent |-> <<events[1]>>, enq |-> <<>>, unloaded |-> FALSE]

\* A flushQueue invocation that found the queue empty: its loop body never runs.
EmptyDrain == [events |-> <<>>, idx |-> 0, sent |-> <<>>, enq |-> <<>>, unloaded |-> FALSE]

\* The local array "remaining" when the loop is left: the failed event alone
\* (remaining.push(event); break), or nothing.
Remaining(events, failedAt) ==
    IF failedAt = 0 THEN <<>> ELSE <<events[failedAt]>>

WritesOnlyRemainder(events, remaining) == remaining # <<>>

\* if (remaining.length < events.length)
Writes(events, remaining) == Len(remaining) < Len(events)

WriteBackKeepsNewer(events, remaining) ==
    IF Writes(events, remaining)
    THEN QueueSet(remaining \o SelectSeq(QueueGet, LAMBDA e : e \notin Range(events)))
    ELSE queue

\* The queue after "if (remaining.length < events.length) this.queue.set(remaining)".
WriteBack(events, remaining) ==
    IF Writes(events, remaining) THEN QueueSet(remaining) ELSE queue

GuardKept(flag) == flag

\* finally { this.isProcessingQueue = false; }
GuardReleased(flag) == FALSE

\* The record of a flushQueue invocation that returns in this step.
Completed(d, failedAt) ==
    [done |-> TRUE, events |-> d.events, sent |-> d.sent, failedAt |-> failedAt,
     enq |-> d.enq, unloaded |-> d.unloaded,
     wrote |-> Writes(d.events, Remaining(d.events, failedAt)),
     before |-> queue]

\* flushQueue from its call to its first await (or to its return when the
\* guard is set or the queue is empty).
FlushQueue ==
    IF DrainInProgress(isProcessingQueue)
    THEN /\ last' = [Step("flushQueue") EXCEPT !.flush = "skipped"]
         /\ UNCHANGED <<queue, isProcessingQueue, drains>>
    ELSE LET events == QueueGet
         IN  IF events = <<>>
             THEN /\ last' = [Step("flushQueue") EXCEPT !.flush = "empty",
                                 !.drain = Completed(EmptyDrain, 0)]
                  /\ isProcessingQueue' = GuardReleased(TRUE)
                  /\ queue' = WriteBack(events, Remaining(events, 0))
                  /\ UNCHANGED drains
             ELSE /\ last' = [Step("flushQueue") EXCEPT !.flush = "started",
                                 !.event = events[1]]
                  /\ isProcessingQueue' = TRUE
                  /\ drains' = Append(drains, StartedDrain(events))
                  /\ UNCHANGED queue

RemoveAt(s, i) == SubSeq(s, 1, i - 1) \o SubSeq(s, i + 1, Len(s))

LoopNeverBreaks(r) == FALSE

\* if (!result.success) { remaining.push(event); break; }
LoopBreaks(r) == ~Success(r)

\* flushQueue after "await this.transport.send(event)": the next send, or the
\* end of the loop, the write-back and the finally block.  The step to the
\* next send records what the send before it resolved to.
DrainSettle(i, r) ==
    /\ i \in 1..Len(drains)
    /\ LET d == drains[i]
       IN  IF ~LoopBreaks(r) /\ d.idx < Len(d.events)
           THEN /\ drains' = [drains EXCEPT ![i] =
                       [@ EXCEPT !.idx = d.idx + 1,
                                 !.sent = Append(@, d.events[d.idx + 1])]]
                /\ last' = [Step("flushQueue.next") EXCEPT
                               !.event = d.events[d.idx + 1],
                               !.response = IF Success(r) THEN "success" ELSE "failure"]
                /\ UNCHANGED <<queue, isProcessingQueue>>
           ELSE LET failedAt == IF Success(r) THEN 0 ELSE d.idx
                IN  /\ queue' = WriteBack(d.events, Remaining(d.events, failedAt))
                    /\ isProcessingQueue' = GuardReleased(TRUE)
                    /\ drains' = RemoveAt(drains, i)
                    /\ last' = [Step("flushQueue.done") EXCEPT
                                   !.drain = Completed(d, failedAt)]
    /\ UNCHANGED <<runtime, storage, captures>>
    /\ UNCHANGED <<transportVars, moduleVars, hubVars>>

\* ------------------------------------------------------- browser listeners

\* window 'online': onOnline calls flushQueue.
OnOnline ==
    /\ runtime = "browser"
    /\ FlushQueue
    /\ UNCHANGED <<runtime, storage, captures>>
    /\ UNCHANGED <<transportVars, moduleVars, hubVars>>

\* document 'visibilitychange': flushQueue when the page became visible.
OnVisibilityChange(visibilityState) ==
    /\ runtime = "browser"
    /\ IF visibilityState = "visible"
       THEN FlushQueue
       ELSE UNCHANGED <<queue, isProcessingQueue, drains, last>>
    /\ UNCHANGED <<runtime, storage, captures>>
    /\ UNCHANGED <<transportVars, moduleVars, hubVars>>

BeaconSendsFirstOnly(events) == SubSeq(events, 1, Min(1, Len(events)))

\* for (const event of events) this.beaconTransport.send(event): the events
\* sendBeacon is called with, in the order of the calls.
BeaconSends(events) == events

\* window 'beforeunload': sendPendingViaBeacon hands every queued event to the
\* beacon transport, awaits nothing, and clears the queue.  accepted is what
\* navigator.sendBeacon does with the events, when there are any: it queues
\* them, refuses them or throws; the promise of BeaconTransport.send is
\* dropped.
SendPendingViaBeacon(accepted) ==
    /\ runtime = "browser"
    /\ queue' = QueueClear
    /\ drains' = [d \in 1..Len(drains) |-> [drains[d] EXCEPT !.unloaded = TRUE]]
    /\ last' = [Step("onBeforeUnload") EXCEPT
                   !.beaconed = BeaconSends(QueueGet),
                   !.response = IF QueueGet = <<>> THEN "none" ELSE accepted]
    /\ UNCHANGED <<runtime, storage, isProcessingQueue, captures>>
    /\ UNCHANGED <<transportVars, moduleVars, hubVars>>

\* ---------------------------------------------------------------- transports

\* The status codes a response may carry.
Statuses == {200, 204, 299, 300, 404, 500}

\* What the body of a response is: a JSON object with success true and an id,
\* one with success true and no id, another JSON object or array ({error}),
\* JSON that is no object (null, a number, a string), or no JSON at all (text,
\* an empty body).
Bodies == {"success_id", "success_noid", "error_object", "non_object", "not_json"}

\* A TransportResponse, or the promise of one: statusCode 0 stands for an
\* absent statusCode.
Pending == [settled |-> "pending", success |-> FALSE, hasId |-> FALSE, statusCode |-> 0, error |-> FALSE]

Rejected == [Pending EXCEPT !.settled = "rejected"]

\* { success: true, id } when the body carried one.
Succeeded(hasId) == [Pending EXCEPT !.settled = "resolved", !.success = TRUE, !.hasId = hasId]

\* { success: false, error }
Failed == [Pending EXCEPT !.settled = "resolved", !.error = TRUE]

\* { success: false, statusCode, error: `HTTP ${statusCode}` }
HttpFailure(status) == [Failed EXCEPT !.statusCode = status]

\* { success } of the beacon transport.
Beaconed(success) == [Pending EXCEPT !.settled = "resolved", !.success = success]

\* A send call: the transport, where it is suspended, what the network did
\* (cause, status, body), how many send calls there have been, and the
\* promise it returned.
NoRequest == [transport |-> "none", pc |-> "idle", cause |-> "none", status |-> 0, body |-> "none", n |-> 0, result |-> Pending]

NewRequest(t, pc, cause) == [NoRequest EXCEPT !.transport = t, !.pc = pc, !.cause = cause, !.n = request.n + 1]

OkUpTo300(status) == status >= 200 /\ status <= 300

\* response.ok; statusCode >= 200 && statusCode < 300
Ok(status) == status >= 200 /\ status < 300

\* JSON.parse(data) / response.json() throws or rejects.
NotJson(body) == body = "not_json"

\* BaseTransport.parseResponse throws: 'success' in response, applied to a
\* value that is no object.
ParseResponseThrows(body) == body = "non_object"

\* BaseTransport.parseResponse on a parsed object.
ParseResponse(body) ==
    CASE body = "success_id"   -> Succeeded(TRUE)
      [] body = "success_noid" -> Succeeded(FALSE)
      [] body = "error_object" -> Failed

\* Reading the body throws inside the try block around it.
BodyThrows(body) == NotJson(body) \/ ParseResponseThrows(body)

\* resolve(value) of the promise NodeTransport.send returns: the first call
\* settles it, the later ones do nothing.
Resolve(result, value) == IF result.settled = "pending" THEN value ELSE result

FetchRethrows(thrown) == Rejected

\* FetchTransport.send: catch (error) { return { success: false, error } }
FetchCatch(thrown) == Failed

\* A new send call may begin: this model runs them one after the other.
CanSend == request.pc \in {"idle", "settled"} /\ request.n < MaxSends

\* FetchTransport.send up to "await fetch(...)".  building is "throws" when
\* buildHeaders, buildPayload (JSON.stringify) or the call of fetch throws.
FetchSend(building) ==
    /\ runtime = "browser"
    /\ CanSend
    /\ request' = IF building = "throws"
                  THEN [NewRequest("fetch", "settled", "build_throws") EXCEPT
                           !.result = FetchCatch("throws")]
                  ELSE NewRequest("fetch", "fetch", "none")
    /\ UNCHANGED <<pipelineVars, last, moduleVars, hubVars>>

\* FetchTransport.send after "await fetch(...)" when fetch rejected.
FetchRejected ==
    /\ request.pc = "fetch"
    /\ request' = [request EXCEPT !.pc = "settled", !.cause = "network_error",
                                  !.result = FetchCatch("throws")]
    /\ UNCHANGED <<pipelineVars, last, moduleVars, hubVars>>

\* FetchTransport.send after "await fetch(...)" when a response arrived.
FetchResponded(status) ==
    /\ request.pc = "fetch"
    /\ request' =
          IF ~Ok(status)
          THEN [request EXCEPT !.pc = "settled", !.cause = "response",
                               !.status = status, !.result = HttpFailure(status)]
          ELSE [request EXCEPT !.pc = "json", !.cause = "response", !.status = status]
    /\ UNCHANGED <<pipelineVars, last, moduleVars, hubVars>>

\* FetchTransport.send after "await response.json()".
FetchJson(body) ==
    /\ request.pc = "json"
    /\ request' = [request EXCEPT !.pc = "settled", !.body = body,
                      !.result = IF BodyThrows(body)
                                 THEN FetchCatch("throws")
                                 ELSE ParseResponse(body)]
    /\ UNCHANGED <<pipelineVars, last, moduleVars, hubVars>>

\* NodeTransport.send up to the return of the promise: the request is made
\* with timeout: 10000, or building it throws (new URL, request, buildPayload)
\* and the catch resolves.
NodeSend(building) ==
    /\ runtime = "node"
    /\ CanSend
    /\ request' = IF building = "throws"
                  THEN [NewRequest("node", "settled", "build_throws") EXCEPT
                           !.result = Resolve(Pending, Failed)]
                  ELSE NewRequest("node", "request", "none")
    /\ UNCHANGED <<pipelineVars, last, moduleVars, hubVars>>

\* res.on('end'): the whole response has arrived.
NodeResponseEnd(status, body) ==
    /\ request.pc = "request"
    /\ request' = [request EXCEPT !.pc = "settled", !.cause = "response",
                      !.status = status, !.body = body,
                      !.result = Resolve(@,
                          IF Ok(status)
                          THEN IF BodyThrows(body)
                               THEN Succeeded(FALSE)
                               ELSE ParseResponse(body)
                          ELSE HttpFailure(status))]
    /\ UNCHANGED <<pipelineVars, last, moduleVars, hubVars>>

\* req.on('error'): also after the timeout handler destroyed the request.
NodeError ==
    /\ request.pc \in {"request", "destroyed"}
    /\ request' = [request EXCEPT !.pc = "settled",
                      !.cause = IF request.pc = "request" THEN "network_error" ELSE @,
                      !.result = Resolve(@, Failed)]
    /\ UNCHANGED <<pipelineVars, last, moduleVars, hubVars>>

\* req.on('timeout'): req.destroy(), resolve.
NodeTimeout ==
    /\ request.pc = "request"
    /\ request' = [request EXCEPT !.pc = "destroyed", !.cause = "timeout",
                      !.result = Resolve(@, Failed)]
    /\ UNCHANGED <<pipelineVars, last, moduleVars, hubVars>>

\* The destroyed request is closed without a further event.
NodeClose ==
    /\ request.pc = "destroyed"
    /\ request' = [request EXCEPT !.pc = "settled"]
    /\ UNCHANGED <<pipelineVars, last, moduleVars, hubVars>>

\* BeaconTransport.send: navigator.sendBeacon returns true ("queued") or
\* false ("refused"), or building the Blob or the call throws.
BeaconSend(outcome) ==
    /\ runtime = "browser"
    /\ CanSend
    /\ request' = [NewRequest("beacon", "settled",
                              IF outcome = "throws" THEN "build_throws" ELSE outcome)
                      EXCEPT !.result = IF outcome = "throws" THEN Failed
                                        ELSE Beaconed(outcome = "queued")]
    /\ UNCHANGED <<pipelineVars, last, moduleVars, hubVars>>

\* -------------------------------------------------------------------- scope

\* The keys and values the host uses for tags and extras, and its users.
Keys == {"a", "b"}

TagValues == {"1"}

ExtraValues == {"x", "undefined"}

Users == {"u1"}

\* The objects with keys among ks and values among vs.
Objects(ks, vs) == UNION {[d -> vs] : d \in SUBSET ks}

\* object[key] = value
Put(object, key, value) ==
    [k \in DOMAIN object \cup {key} |-> IF k = key THEN value ELSE object[k]]

\* delete object[key]
Delete(object, key) == [k \in DOMAIN object \ {key} |-> object[k]]

\* { ...object, ...other }: every own key of other, whatever its value.
Spread(object, other) ==
    [k \in DOMAIN object \cup DOMAIN other |->
        IF k \in DOMAIN other THEN other[k] ELSE object[k]]

\* A heap with one more object, and the reference to it.
Allocated(h, object) == [heap |-> Append(h, object), ref |-> Len(h) + 1]

Aliased(h, ref) == [heap |-> h, ref |-> IF DOMAIN h[ref] # {} THEN ref ELSE 0]

\* Object.keys(x).length > 0 ? { ...x } : undefined
Copied(h, ref) ==
    IF DOMAIN h[ref] # {} THEN Allocated(h, h[ref]) ELSE [heap |-> h, ref |-> 0]

\* The tags, metadata and user an event holds on heap h: the contents of the
\* objects it refers to ({} for undefined).
Contents(h, event) ==
    [tags |-> IF event.tags = 0 THEN EmptyObject ELSE h[event.tags],
     metadata |-> IF event.metadata = 0 THEN EmptyObject ELSE h[event.metadata],
     user |-> IF event.user = 0 THEN EmptyObject ELSE h[event.user]]

\* One more scope call may be made.
CanCall == last.n < MaxScopeCalls

\* setUser(user): this.scope.user = user || undefined.  user is null or an
\* object of the host.
SetUser(user) ==
    /\ CanCall
    /\ IF user = "null"
       THEN /\ scope' = [scope EXCEPT !.user = 0]
            /\ UNCHANGED heap
       ELSE LET a == Allocated(heap, [k \in {"id"} |-> user])
            IN  /\ heap' = a.heap
                /\ scope' = [scope EXCEPT !.user = a.ref]
    /\ last' = [op |-> "setUser", n |-> last.n + 1]
    /\ UNCHANGED <<pipelineVars, transportVars, moduleVars, built>>

\* setTag(key, value): this.scope.tags[key] = value
SetTag(key, value) ==
    /\ CanCall
    /\ heap' = [heap EXCEPT ![scope.tags] = Put(@, key, value)]
    /\ last' = [op |-> "setTag", n |-> last.n + 1]
    /\ UNCHANGED <<pipelineVars, transportVars, moduleVars, scope, built>>

\* setTags(tags): this.scope.tags = { ...this.scope.tags, ...tags }
SetTags(tags) ==
    /\ CanCall
    /\ LET a == Allocated(heap, Spread(heap[scope.tags], tags))
       IN  /\ heap' = a.heap
           /\ scope' = [scope EXCEPT !.tags = a.ref]
    /\ last' = [op |-> "setTags", n |-> last.n + 1]
    /\ UNCHANGED <<pipelineVars, transportVars, moduleVars, built>>

\* setExtra(key, value): delete the key when value === undefined, else set it.
SetExtra(key, value) ==
    /\ CanCall
    /\ heap' = [heap EXCEPT ![scope.extras] =
                    IF value = "undefined" THEN Delete(@, key) ELSE Put(@, key, value)]
    /\ last' = [op |-> "setExtra", n |-> last.n + 1, key |-> key, value |-> value]
    /\ UNCHANGED <<pipelineVars, transportVars, moduleVars, scope, built>>

\* setExtras(extras): this.scope.extras = { ...this.scope.extras, ...extras }
SetExtras(extras) ==
    /\ CanCall
    /\ LET a == Allocated(heap, Spread(heap[scope.extras], extras))
       IN  /\ heap' = a.heap
           /\ scope' = [scope EXCEPT !.extras = a.ref]
    /\ last' = [op |-> "setExtras", n |-> last.n + 1, extras |-> extras]
    /\ UNCHANGED <<pipelineVars, transportVars, moduleVars, built>>

\* buildEvent: metadata and tags are copies of the scope's extras and tags
\* (undefined when those are empty), user is the scope's user itself.  The
\* event is kept with what it held when it was built.
BuildEvent ==
    /\ Len(built) < MaxBuilds
    /\ LET metadata == Copied(heap, scope.extras)
           tags == Copied(metadata.heap, scope.tags)
           event == [metadata |-> metadata.ref, tags |-> tags.ref, user |-> scope.user]
       IN  /\ heap' = tags.heap
           /\ built' = Append(built, [event |-> event, held |-> Contents(tags.heap, event)])
    /\ last' = [op |-> "buildEvent", n |-> last.n]
    /\ UNCHANGED <<pipelineVars, transportVars, moduleVars, scope>>

\* ------------------------------------------------------------------ express

\* The metadata object errorHandler collects for request r (its path, method,
\* query, ip, user agent and ids), named by the request.
RequestMetadata(r) == "request " \o ToString(r)

WithRequestUnlessSet(extras, metadata) ==
    IF "request" \in DOMAIN extras THEN extras ELSE Put(extras, "request", metadata)

\* client.setExtra('request', metadata)
WithRequest(extras, metadata) == Put(extras, "request", metadata)

\* The express errorHandler for failing request r, up to its return:
\* setExtra('request', metadata), then captureException, which runs
\* synchronously through normalizeError and buildEvent and is suspended in
\* sendEvent; the .finally callback is registered on its promise.
ErrorHandler(r) ==
    /\ r \in 1..Len(captures)
    /\ captures[r].pc = "idle"
    /\ LET set == [heap EXCEPT ![scope.extras] = WithRequest(@, RequestMetadata(r))]
           metadata == Copied(set, scope.extras)
           tags == Copied(metadata.heap, scope.tags)
           event == [metadata |-> metadata.ref, tags |-> tags.ref, user |-> scope.user]
       IN  /\ heap' = tags.heap
           /\ built' = Append(built, [event |-> event, held |-> Contents(tags.heap, event)])
    /\ captures' = [captures EXCEPT ![r] = [@ EXCEPT !.pc = "send", !.event = Len(built) + 1]]
    /\ last' = [op |-> "errorHandler", request |-> r]
    /\ UNCHANGED <<runtime, storage, queue, isProcessingQueue, drains>>
    /\ UNCHANGED <<transportVars, moduleVars, scope>>

\* The capture of request r settles with the id or with null, and its
\* .finally callback runs: client.setExtra('request', undefined).
ErrorHandlerSettled(r, result) ==
    /\ r \in 1..Len(captures)
    /\ captures[r].pc = "send"
    /\ captures' = [captures EXCEPT ![r] = [@ EXCEPT !.pc = "done", !.result = result]]
    /\ heap' = [heap EXCEPT ![scope.extras] = Delete(@, "request")]
    /\ last' = [op |-> "finally", request |-> r]
    /\ UNCHANGED <<runtime, storage, queue, isProcessingQueue, drains>>
    /\ UNCHANGED <<transportVars, moduleVars, scope, built>>

\* What an incoming request may carry: req.user.id of an authenticated
\* request and its x-request-id header, both naming the request, or "none".
RequestUser(r) == "user " \o ToString(r)

RequestId(r) == "id " \o ToString(r)

\* A request that requestHandler has not seen yet.
NewRequestOf(user, requestId) ==
    [pc |-> "request", event |-> NoEvent, sent |-> NoEvent, result |-> "pending",
     user |-> user, requestId |-> requestId]

\* The express requestHandler for request r, up to next(): setUser when the
\* request has a user id, setTag('requestId', ...) when it has the header.
\* Both write the scope of the one client getClient() returns.
RequestHandler(r) ==
    /\ r \in 1..Len(captures)
    /\ captures[r].pc = "request"
    /\ LET a == IF captures[r].user # "none"
                THEN Allocated(heap, [k \in {"id"} |-> captures[r].user])
                ELSE [heap |-> heap, ref |-> scope.user]
       IN  /\ scope' = [scope EXCEPT !.user = a.ref]
           /\ heap' = IF captures[r].requestId # "none"
                      THEN [a.heap EXCEPT ![scope.tags] =
                               Put(@, "requestId", captures[r].requestId)]
                      ELSE a.heap
    /\ captures' = [captures EXCEPT ![r] = [@ EXCEPT !.pc = "idle"]]
    /\ last' = [op |-> "requestHandler", request |-> r]
    /\ UNCHANGED <<runtime, storage, queue, isProcessingQueue, drains>>
    /\ UNCHANGED <<transportVars, moduleVars, built>>

\* ------------------------------------------------------------ buildPayload

\* JSON.stringify of an object of strings: a key whose value is undefined is
\* left out.
JsonStringify(object) ==
    [k \in {j \in DOMAIN object : object[j] # "undefined"} |-> object[k]]

\* buildPayload's metadata object: { ...event.metadata }, then tags when the
\* event has tags with at least one key, then user when the event has a user.
\* An entry that is not set is <<>>, one that is set is <<its value>>.
Metadata(h, event) ==
    LET held == Contents(h, event)
    IN  [extras |-> held.metadata,
         tags |-> IF event.tags # 0 /\ DOMAIN held.tags # {}
                  THEN <<held.tags>> ELSE <<>>,
         user |-> IF event.user # 0 THEN <<held.user>> ELSE <<>>]

\* Object.keys(metadata).length > 0
HasKeys(metadata) ==
    DOMAIN metadata.extras # {} \/ metadata.tags # <<>> \/ metadata.user # <<>>

\* The payload's metadata field: set only when the metadata object has keys.
\* The payload has no tags field of its own.
Payload(h, event) ==
    [metadata |-> IF HasKeys(Metadata(h, event)) THEN <<Metadata(h, event)>>
                  ELSE <<>>]

\* JSON.stringify(payload), as the maps it writes.
Serialized(payload) ==
    [metadata |->
        IF payload.metadata = <<>> THEN <<>>
        ELSE LET m == payload.metadata[1]
             IN  <<[extras |-> JsonStringify(m.extras),
                    tags |-> IF m.tags = <<>> THEN <<>>
                             ELSE <<JsonStringify(m.tags[1])>>,
                    user |-> IF m.user = <<>> THEN <<>>
                             ELSE <<JsonStringify(m.user[1])>>]>>]

\* buildPayload(event) for the i-th built event: the body the transport posts.
BuildPayload(i) ==
    /\ i \in 1..Len(built)
    /\ last' = [op |-> "buildPayload", n |-> last.n, event |-> i,
                body |-> Serialized(Payload(heap, built[i].event))]
    /\ UNCHANGED <<pipelineVars, transportVars, moduleVars, hubVars>>

\* ------------------------------------------------------------ configuration

\* What the caller may give for dsn, appId and commitHash: no such key, the
\* empty string, or a non-empty string.
StringOptions == {"absent", "empty", "set"}

\* What the caller may give for environment: no such key, the key with the
\* value undefined, the empty string, a recognized or an unrecognized name.
EnvironmentOptions == {"absent", "undefined", "empty", "Production", "Staging", "Development", "Prod"}

\* ErrorTrackerOptions as the caller passes them.
OptionSets ==
    [dsn : StringOptions, appId : StringOptions, commitHash : StringOptions,
     environment : EnvironmentOptions, autoCapture : {"absent", "false"}]

\* const DEFAULT_OPTIONS
DEFAULT_OPTIONS ==
    [dsn |-> "absent", appId |-> "absent", commitHash |-> "absent",
     environment |-> "Development", autoCapture |-> "true"]

\* const VALID_ENVIRONMENTS
VALID_ENVIRONMENTS == {"Production", "Staging", "Development"}

\* { ...DEFAULT_OPTIONS, ...options }: a key the caller gave, even with the
\* value undefined, replaces the default.
Merged(options) ==
    [f \in DOMAIN options |->
        IF options[f] = "absent" THEN DEFAULT_OPTIONS[f] ELSE options[f]]

\* JavaScript's !value on an option.
Missing(v) == v \in {"absent", "undefined", "empty"}

ValidateSkipsEnvironment(o) ==
    CASE Missing(o.dsn)        -> "dsn is required"
      [] Missing(o.appId)      -> "appId is required"
      [] Missing(o.commitHash) -> "commitHash is required"
      [] OTHER                 -> "none"

\* Config.validate on the merged options: the error it throws, or "none".
Validate(o) ==
    CASE Missing(o.dsn)        -> "dsn is required"
      [] Missing(o.appId)      -> "appId is required"
      [] Missing(o.commitHash) -> "commitHash is required"
      [] o.environment \notin VALID_ENVIRONMENTS -> "environment must be one of"
      [] OTHER                 -> "none"

\* new Config(options): the error the constructor throws, or "none".
ConfigError(options) == Validate(Merged(options))

\* dsn.replace(/\/$/, ''): one slash at the very end of the string is removed.
StripSlash(dsn) ==
    IF Len(dsn) > 0 /\ SubSeq(dsn, Len(dsn), Len(dsn)) = "/"
    THEN SubSeq(dsn, 1, Len(dsn) - 1)
    ELSE dsn

\* BaseTransport's constructor: the endpoint of a transport made for dsn.
Endpoint(dsn) == StripSlash(dsn) \o "/api/ingest-error"

\* The handlers of window.onerror: 0 is null, i > 0 is the function the
\* setupGlobalHandlers call of the i-th client assigned, OtherHandler is a
\* function of another party.
OtherHandler == -1

\* The page before any client: window.onerror is null.
NoHandlers == [onerror |-> 0, originals |-> <<>>]

\* The constructor's setupGlobalHandlers(this) for the i-th client, run in the
\* browser when autoCapture is on: originalOnError = window.onerror, then
\* window.onerror = the client's handler.  A client without the installation
\* saves nothing (0).
SetupGlobalHandlers(w, rt, options, i) ==
    IF rt = "browser" /\ Merged(options).autoCapture = "true"
    THEN [onerror |-> i, originals |-> Append(w.originals, w.onerror)]
    ELSE [w EXCEPT !.originals = Append(@, 0)]

\* The cleanup setupGlobalHandlers returned to the i-th client c, run by its
\* destroy while the client still holds it: window.onerror = originalOnError.
Cleanup(w, rt, c, i) ==
    IF rt = "browser" /\ c.handlers
    THEN [w EXCEPT !.onerror = w.originals[i]]
    ELSE w

\* A constructed client: its configuration, whether its global handlers and
\* its browser listeners are installed, whether its constructor made the
\* initial flushQueue call, and whether the module has handed it a capture or
\* scope call.
NewClient(rt, options) ==
    [config |-> Merged(options),
     endpoint |-> Endpoint(Merged(options).dsn),
     handlers |-> Merged(options).autoCapture = "true",
     listeners |-> rt = "browser",
     flushed |-> rt = "browser",
     used |-> FALSE,
     destroyed |-> FALSE]

ValidatesAfterSetup(cs, rt, options) == Append(cs, NewClient(rt, options))

\* The clients there are after a constructor threw: super(options) constructs
\* the Config before anything is installed, so none was added to cs.
AfterFailedConstruction(cs, rt, options) == cs

\* The step just taken by a constructor or by the module's init.
Call(op, options, outcome) == [op |-> op, options |-> options, outcome |-> outcome, afterThrow |-> FALSE]

\* new BrowserClient(options) / new NodeClient(options), on the options that
\* last holds: super(options) constructs the Config first, which may throw.
Construct ==
    /\ last.op = "options"
    /\ IF ConfigError(last.options) # "none"
       THEN /\ last' = Call("new", last.options, ConfigError(last.options))
            /\ clients' = AfterFailedConstruction(clients, runtime, last.options)
            /\ UNCHANGED window
       ELSE /\ last' = Call("new", last.options, "constructed")
            /\ clients' = Append(clients, NewClient(runtime, last.options))
            /\ window' = SetupGlobalHandlers(window, runtime, last.options, Len(clients) + 1)
    /\ UNCHANGED <<pipelineVars, transportVars, client, hubVars>>

\* The dsn values a host configures, with and without a trailing slash.
Dsns == {"https://h", "https://h/", "https://g/"}

\* The partial options a host passes to getConfig().update.
Updates ==
    LET values == [dsn |-> Dsns,
                   appId |-> {"empty", "undefined", "set"},
                   environment |-> {"undefined", "Staging", "Prod"}]
    IN  {u \in UNION {[d -> Dsns \cup values.appId \cup values.environment] :
                         d \in SUBSET {"dsn", "appId", "environment"}} :
            \A k \in DOMAIN u : u[k] \in values[k]}

\* Config.update(updates): this.options = { ...this.options, ...updates }
ConfigUpdate(updates) ==
    /\ last.n < MaxUpdates
    /\ clients' = [clients EXCEPT ![1].config = Spread(@, updates)]
    /\ last' = [op |-> "update", n |-> last.n + 1]
    /\ UNCHANGED <<pipelineVars, transportVars, client, window, hubVars>>

IdentityOfDefaults(config, level, message) ==
    [appId |-> config.appId, commitHash |-> config.commitHash,
     environment |-> DEFAULT_OPTIONS.environment, level |-> level, message |-> message]

\* The fields buildEvent reads from the configuration and from its arguments.
Identity(config, level, message) ==
    [appId |-> config.appId, commitHash |-> config.commitHash,
     environment |-> config.environment, level |-> level, message |-> message]

\* captureMessage(message, level) on the constructed client, up to the
\* transport's request: the event buildEvent returns and the url the
\* transport posts it to.
CaptureMessage(message, level) ==
    /\ last' = [op |-> "captureMessage", n |-> last.n,
                event |-> Identity(clients[1].config, level, message),
                url |-> clients[1].endpoint]
    /\ UNCHANGED <<pipelineVars, transportVars, moduleVars, hubVars>>

\* client.destroy(): every cleanup handler runs.
Destroyed(c) == [c EXCEPT !.handlers = FALSE, !.listeners = FALSE, !.destroyed = TRUE]

\* new BrowserClient(options) / new NodeClient(options) by the host itself:
\* super(options) constructs the Config, which may throw; then the global
\* handlers and the browser listeners are installed.
NewClientCall(options) ==
    /\ Len(clients) < MaxHookClients
    /\ IF ConfigError(options) # "none"
       THEN /\ clients' = AfterFailedConstruction(clients, runtime, options)
            /\ UNCHANGED window
       ELSE /\ clients' = Append(clients, NewClient(runtime, options))
            /\ window' = SetupGlobalHandlers(window, runtime, options, Len(clients) + 1)
    /\ last' = [op |-> "new", target |-> Len(clients'), kind |-> "none", reached |-> {}]
    /\ UNCHANGED <<pipelineVars, transportVars, client, hubVars>>

\* destroy() of the i-th client: every cleanup it holds runs, and it holds
\* none afterwards.
Destroy(i) ==
    /\ i \in 1..Len(clients)
    /\ clients' = [clients EXCEPT ![i] = Destroyed(@)]
    /\ window' = Cleanup(window, runtime, clients[i], i)
    /\ last' = [op |-> "destroy", target |-> i, kind |-> "none", reached |-> {}]
    /\ UNCHANGED <<pipelineVars, transportVars, client, hubVars>>

\* Another party of the page assigns its own function to window.onerror.
OtherAssignsOnError ==
    /\ runtime = "browser"
    /\ window' = [window EXCEPT !.onerror = OtherHandler]
    /\ last' = [op |-> "other", target |-> 0, kind |-> "none", reached |-> {}]
    /\ UNCHANGED <<pipelineVars, transportVars, client, clients, hubVars>>

\* The clients whose window.onerror function runs when the browser calls
\* handler h: the function of client h captures, then calls the
\* originalOnError it saved, if any.  Another party's function is taken not to
\* call the one it replaced.
RECURSIVE OnErrorCalls(_, _)
OnErrorCalls(w, h) ==
    IF h <= 0 THEN {} ELSE {h} \cup OnErrorCalls(w, w.originals[h])

\* The events the runtime delivers to what the clients have registered.
EventKinds(rt) ==
    IF rt = "browser"
    THEN {"error", "unhandledrejection", "online", "visibilitychange", "beforeunload"}
    ELSE {"uncaughtException", "unhandledRejection", "SIGTERM", "SIGINT"}

\* The clients whose callback runs for an event: window.onerror for an error;
\* the listeners the global handlers added, still registered, for a
\* rejection, an exception of the process or a signal; the listeners
\* setupBrowserListeners added, still registered, for the page's events.
Reached(kind) ==
    CASE kind = "error" -> OnErrorCalls(window, window.onerror)
      [] kind \in {"online", "visibilitychange", "beforeunload"} ->
            {i \in 1..Len(clients) : clients[i].listeners}
      [] OTHER -> {i \in 1..Len(clients) : clients[i].handlers}

\* The runtime delivers one event: the clients it reaches capture (a fault),
\* drain (online, visibilitychange), beacon-flush (beforeunload) or flush and
\* exit (a signal).
Dispatch(kind) ==
    /\ kind \in EventKinds(runtime)
    /\ last' = [op |-> "event", target |-> 0, kind |-> kind, reached |-> Reached(kind)]
    /\ UNCHANGED <<pipelineVars, transportVars, moduleVars, hubVars>>

\* ------------------------------------------------------------------ index.ts

InitUnguarded(c) == FALSE

\* if (client) / if (getGlobalClient())
AlreadyInitialized(c) == c # 0

\* init(options): warn and return when a client is active; else construct the
\* client, which may throw, and register it.
ModuleInit(options) ==
    /\ AlreadyInitialized(client) \/ Len(clients) < MaxClients
    /\ IF AlreadyInitialized(client)
       THEN /\ last' = Call("init", options, "already initialized")
            /\ UNCHANGED <<client, clients, window>>
       ELSE IF ConfigError(options) # "none"
       THEN /\ last' = Call("init", options, ConfigError(options))
            /\ clients' = AfterFailedConstruction(clients, runtime, options)
            /\ UNCHANGED <<client, window>>
       ELSE /\ last' = [Call("init", options, "constructed") EXCEPT
                           !.afterThrow = (last.op = "init"
                                             /\ last.outcome \notin {"constructed", "already initialized"})]
            /\ clients' = Append(clients, NewClient(runtime, options))
            /\ window' = SetupGlobalHandlers(window, runtime, options, Len(clients) + 1)
            /\ client' = Len(clients) + 1
    /\ UNCHANGED <<pipelineVars, transportVars, hubVars>>

\* close(): client?.destroy(); client = null.
ModuleClose ==
    /\ last' = [op |-> "close"]
    /\ clients' = IF client = 0 THEN clients
                  ELSE [clients EXCEPT ![client] = Destroyed(@)]
    /\ window' = IF client = 0 THEN window
                 ELSE Cleanup(window, runtime, clients[client], client)
    /\ client' = 0
    /\ UNCHANGED <<pipelineVars, transportVars, hubVars>>

\* The module's captureException, captureMessage, setUser, setTag, setTags,
\* setExtra and setExtras: handed to the active client, if there is one.
ModuleCall ==
    /\ last' = [op |-> "call", to |-> client]
    /\ clients' = IF client = 0 THEN clients
                  ELSE [clients EXCEPT ![client].used = TRUE]
    /\ UNCHANGED <<pipelineVars, transportVars, client, window, hubVars>>

\* level: ErrorLevel = 'Warning'
LevelGiven(level) == IF level = "absent" THEN "Warning" ELSE level

\* The request body of an event: the five fields buildPayload always writes
\* and the serialized metadata field.
Body(h, identity, event) ==
    [appId |-> identity.appId, commitHash |-> identity.commitHash,
     environment |-> identity.environment, level |-> identity.level,
     message |-> identity.message,
     metadata |-> Serialized(Payload(h, event)).metadata]

\* The module's captureMessage(message, level) as the k-th capture call: warn
\* and resolve to null without a client; else the client's captureMessage
\* runs up to its first await: buildEvent from the configuration and the
\* scope, then sendEvent calls applyBeforeSend.
ModuleCaptureMessage(k, message, level) ==
    /\ captures[k].pc = "idle"
    /\ IF k = 1 THEN TRUE ELSE captures[k - 1].pc # "idle"
    /\ IF ~AlreadyInitialized(client)
       THEN /\ captures' = [captures EXCEPT ![k] =
                              [@ EXCEPT !.pc = "done", !.result = "null"]]
            /\ last' = [Step("capture.uninitialized") EXCEPT !.cap = k]
            /\ UNCHANGED <<heap, built>>
       ELSE /\ LET metadata == Copied(heap, scope.extras)
                   tags == Copied(metadata.heap, scope.tags)
                   event == [metadata |-> metadata.ref, tags |-> tags.ref,
                             user |-> scope.user]
               IN  /\ heap' = tags.heap
                   /\ built' = Append(built,
                          [event |-> event, held |-> Contents(tags.heap, event),
                           cap |-> k, given |-> [message |-> message, level |-> level],
                           identity |-> Identity(clients[client].config,
                                                 LevelGiven(level), message)])
            /\ captures' = [captures EXCEPT ![k] =
                              [@ EXCEPT !.pc = "beforeSend", !.event = CapturedEvent(k)]]
            /\ last' = [Step("capture") EXCEPT !.cap = k, !.event = CapturedEvent(k)]
    /\ UNCHANGED <<runtime, storage, queue, isProcessingQueue, drains>>
    /\ UNCHANGED <<transportVars, moduleVars, scope>>

\* --------------------------------------------------- node global handlers

\* An uncaught exception that has not happened yet: the state of the
\* onUncaughtException invocation for it, with the captureException calls it
\* made, their level, and its exit timer.
NotThrown ==
    [pc |-> "idle", event |-> NoEvent, sent |-> NoEvent, result |-> "pending",
     calls |-> 0, level |-> "none", timer |-> "none"]

\* The values a program may throw: an Error or another value that has
\* properties, or null / undefined, on which error.message throws.
UncaughtValues == {"error", "nullish"}

\* process.exit(1) was called by an exit timer.
ExitedByTimer == \E k \in DOMAIN captures : captures[k].timer = "fired"

\* The process is gone: an exit timer fired, or onUncaughtException itself
\* threw, on which Node prints the error and exits with a non-zero code.
Exited ==
    \/ ExitedByTimer
    \/ \E k \in DOMAIN captures : captures[k].pc = "handler threw"

\* process 'uncaughtException' for the k-th exception: the debug call
\* evaluates error.message, then captureException(error, 'Critical') runs up
\* to its first await and .finally is registered on its promise.
OnUncaughtException(k, value) ==
    /\ ~Exited
    /\ captures[k].pc = "idle"
    /\ IF k = 1 THEN TRUE ELSE captures[k - 1].pc # "idle"
    /\ IF value = "nullish"
       THEN captures' = [captures EXCEPT ![k] = [@ EXCEPT !.pc = "handler threw"]]
       ELSE captures' = [captures EXCEPT ![k] =
                [@ EXCEPT !.pc = "beforeSend", !.event = CapturedEvent(k),
                          !.calls = @ + 1, !.level = "Critical"]]
    /\ last' = [Step("uncaughtException") EXCEPT !.cap = k]
    /\ UNCHANGED <<runtime, storage, queue, isProcessingQueue, drains>>
    /\ UNCHANGED <<transportVars, moduleVars, hubVars>>

\* The .finally callback of the k-th capture: setTimeout(..., 2000).
OnCaptureSettled(k) ==
    /\ ~Exited
    /\ captures[k].pc = "done"
    /\ captures[k].timer = "none"
    /\ captures' = [captures EXCEPT ![k] = [@ EXCEPT !.timer = "scheduled"]]
    /\ last' = [Step("finally") EXCEPT !.cap = k]
    /\ UNCHANGED <<runtime, storage, queue, isProcessingQueue, drains>>
    /\ UNCHANGED <<transportVars, moduleVars, hubVars>>

\* The timer of the k-th exception fires: process.exit(1).
ExitTimer(k) ==
    /\ ~Exited
    /\ captures[k].timer = "scheduled"
    /\ captures' = [captures EXCEPT ![k] = [@ EXCEPT !.timer = "fired"]]
    /\ last' = [Step("exit") EXCEPT !.cap = k]
    /\ UNCHANGED <<runtime, storage, queue, isProcessingQueue, drains>>
    /\ UNCHANGED <<transportVars, moduleVars, hubVars>>

\* ------------------------------------------------------------ normalizeError

\* What a message or a reason field of a thrown object may hold: no such key,
\* the empty string, a string, the number 0, the number 7.
FieldValues == {"absent", "empty", "text", "zero", "seven"}

\* JavaScript's truthiness of a field value.
Truthy(v) == v \notin {"absent", "empty", "zero"}

\* The values a host may throw or reject with.  An object may be one whose
\* string conversion throws: it has no toString (Object.create(null)), or one
\* that throws.
ThrownValues ==
    [kind : {"Error"}, message : {"empty", "text"}]
    \cup [kind : {"string"}, text : {"empty", "text"}]
    \cup [kind : {"object"}, message : FieldValues, reason : FieldValues,
          stack : {"absent", "given"}, name : {"absent", "given"},
          convertible : BOOLEAN]
    \cup [kind : {"null", "undefined", "number", "boolean"}]

\* An Error as the caller of normalizeError sees it, or the exception
\* normalizeError threw.  from says where the message comes from.
Normalized(from, stack, name) ==
    [threw |-> FALSE, from |-> from, stack |-> stack, name |-> name]

Thrown == [threw |-> TRUE, from |-> "none", stack |-> "none", name |-> "none"]

\* new Error(message) with stack and name carried over when truthy.
FromObject(e, from) ==
    Normalized(from, IF e.stack = "given" THEN "given" ELSE "own",
                     IF e.name = "given" THEN "given" ELSE "Error")

\* normalizeError(error)
NormalizeError(e) ==
    CASE e.kind = "Error"  -> Normalized("self", "own", "own")
      [] e.kind = "string" -> Normalized("string", "own", "Error")
      [] e.kind = "object" ->
            IF Truthy(e.message) THEN FromObject(e, "message")
            ELSE IF Truthy(e.reason) THEN FromObject(e, "reason")
            ELSE IF e.convertible THEN FromObject(e, "String")
            ELSE Thrown
      [] OTHER -> Normalized("String", "own", "Error")

\* One call of normalizeError on the value that last holds.
Normalize ==
    /\ last.op = "thrown"
    /\ last' = [op |-> "normalizeError", error |-> last.error,
                result |-> NormalizeError(last.error)]
    /\ UNCHANGED <<pipelineVars, transportVars, moduleVars, hubVars>>

\* ----------------------------------------------------------- specification

\* The transport call, the module singleton and the hub's scope when the
\* behaviour is about none of them: no send is under way, the client was
\* constructed directly (new BrowserClient(options), so the module's client
\* is null), and the scope is the one the constructor made.
\* The objects BaseHub's constructor makes for a caller that gave neither
\* tags nor user: this.scope = { tags: {}, user: undefined, extras: {} }.
\* An object is a mapping from its keys to their values, the heap a sequence
\* of objects, a reference an index into it, and 0 the value undefined.
InitialHeap == <<EmptyObject, EmptyObject>>

InitialScope == [tags |-> 1, user |-> 0, extras |-> 2]

TransportIdle == request = NoRequest

ModuleUnused == client = 0 /\ clients = <<>> /\ window = NoHandlers

HubFresh == scope = InitialScope /\ heap = InitialHeap /\ built = <<>>

OnlyPipeline == TransportIdle /\ ModuleUnused /\ HubFresh

\* The state the constructor returns in, n events stored in localStorage
\* whose state is st: the browser client has installed its listeners and made
\* its initial flushQueue call, which is suspended in its first send when it
\* read a non-empty queue.  The host makes up to calls capture calls
\* afterwards.
ConstructedOn(rt, st, n, calls) ==
    /\ runtime = rt
    /\ storage = st
    /\ queue = Persisted(n)
    /\ LET events == IF st = "unavailable" THEN <<>> ELSE Persisted(n)
       IN  /\ isProcessingQueue = (events # <<>>)
           /\ drains = IF events # <<>> THEN <<StartedDrain(events)>> ELSE <<>>
    /\ captures = [k \in 1..calls |-> IdleCapture]
    /\ last = Step("constructor")
    /\ OnlyPipeline

\* The same with a working localStorage.
Constructed(rt, n, calls) == ConstructedOn(rt, "ok", n, calls)

Init ==
    \/ Constructed("node", 0, MaxCaptures)
    \/ \E n \in 0..MaxInitQueue : Constructed("browser", n, MaxCaptures)

Next ==
    \/ \E k \in DOMAIN captures : CaptureStart(k)
    \/ \E k \in DOMAIN captures : CaptureThrows(k)
    \/ \E k \in DOMAIN captures, o \in HookOutcomes, onLine \in BOOLEAN :
           BeforeSendSettle(k, o, onLine)
    \/ \E k \in DOMAIN captures, r \in SendResults : SendSettle(k, r)
    \/ \E i \in 1..Len(drains), r \in SendResults : DrainSettle(i, r)
    \/ OnOnline
    \/ \E v \in {"visible", "hidden"} : OnVisibilityChange(v)
    \/ \E accepted \in {"queued", "refused", "throws"} : SendPendingViaBeacon(accepted)

Spec == Init /\ [][Next]_vars

\* The browser client constructed on a queue at capacity.
InitCapacity == Constructed("browser", MAX_QUEUE_SIZE, MaxCapturesAtCapacity)

SpecCapacity == InitCapacity /\ [][Next]_vars

\* The browser client on a short queue, every send of a drain resolving in
\* the end: the promise transport.send returned settles, with success or not,
\* and the continuation of flushQueue then runs.
InitDrain == \E n \in 0..MaxDrainQueue : Constructed("browser", n, MaxDrainCaptures)

SpecDrainFair ==
    /\ InitDrain
    /\ [][Next]_vars
    /\ WF_vars(\E i \in 1..Len(drains), r \in SendResults : DrainSettle(i, r))

\* The clients on a localStorage that works, that rejects writes (quota) or
\* that rejects every access.
InitFaults ==
    \/ Constructed("node", 0, MaxCapturesFaults)
    \/ \E st \in {"ok", "quota", "unavailable"}, n \in 0..MaxInitQueueFaults :
           ConstructedOn("browser", st, n, MaxCapturesFaults)

SpecFaults == InitFaults /\ [][Next]_vars

\* The runtime is rt; nothing is queued, no drain runs, no capture is made.
PipelineIdle(rt) ==
    /\ runtime = rt
    /\ storage = "ok"
    /\ queue = <<>>
    /\ isProcessingQueue = FALSE
    /\ drains = <<>>
    /\ captures = <<>>

\* A client of either runtime whose transports are called directly.
InitTransport ==
    /\ \E rt \in {"browser", "node"} : PipelineIdle(rt)
    /\ last = Step("constructor")
    /\ TransportIdle
    /\ ModuleUnused
    /\ HubFresh

NextTransport ==
    \/ \E b \in {"ok", "throws"} : FetchSend(b)
    \/ FetchRejected
    \/ \E st \in Statuses : FetchResponded(st)
    \/ \E b \in Bodies : FetchJson(b)
    \/ \E b \in {"ok", "throws"} : NodeSend(b)
    \/ \E st \in Statuses, b \in Bodies : NodeResponseEnd(st, b)
    \/ NodeError
    \/ NodeTimeout
    \/ NodeClose
    \/ \E o \in {"queued", "refused", "throws"} : BeaconSend(o)

SpecTransport == InitTransport /\ [][NextTransport]_vars

\* The same where the endpoint may stay silent for ever: only the timer of
\* the Node request (timeout: 10000) and the closing of a destroyed request
\* are bound to happen; FetchTransport.send sets no timer and passes no
\* signal.
SpecTransportFair ==
    SpecTransport /\ WF_vars(NodeTimeout) /\ WF_vars(NodeClose)

\* The construction of one client on every option set.
InitConfig ==
    /\ \E rt \in {"browser", "node"} : PipelineIdle(rt)
    /\ \E options \in OptionSets : last = [op |-> "options", options |-> options]
    /\ TransportIdle
    /\ ModuleUnused
    /\ HubFresh

NextConfig == Construct

SpecConfig == InitConfig /\ [][NextConfig]_vars

\* The option sets the host passes to the module's init: the valid one and
\* those with a fault in dsn or in environment, with and without autoCapture.
ModuleOptions ==
    {o \in OptionSets : /\ o.appId = "set"
                        /\ o.commitHash = "set"
                        /\ o.environment \in {"absent", "Production", "Prod"}}

\* The module after its import: no client yet.
InitModule ==
    /\ \E rt \in {"browser", "node"} : PipelineIdle(rt)
    /\ last = [op |-> "import"]
    /\ TransportIdle
    /\ ModuleUnused
    /\ HubFresh

NextModule ==
    \/ \E options \in ModuleOptions : ModuleInit(options)
    \/ ModuleClose
    \/ ModuleCall

SpecModule == InitModule /\ [][NextModule]_vars

\* A hub just constructed, from options that may hold tags and a user:
\* tags: options.tags || {}, user: options.user, extras: {}.
InitHub ==
    /\ \E rt \in {"browser", "node"} : PipelineIdle(rt)
    /\ last = [op |-> "constructor", n |-> 0]
    /\ TransportIdle
    /\ ModuleUnused
    /\ built = <<>>
    /\ \E tags \in Objects(Keys, TagValues), user \in Users \cup {"undefined"} :
          /\ heap = IF user = "undefined" THEN <<tags, EmptyObject>>
                    ELSE <<tags, EmptyObject, [k \in {"id"} |-> user]>>
          /\ scope = [tags |-> 1, user |-> IF user = "undefined" THEN 0 ELSE 3,
                      extras |-> 2]

NextHub ==
    \/ \E user \in Users \cup {"null"} : SetUser(user)
    \/ \E key \in Keys, value \in TagValues : SetTag(key, value)
    \/ \E tags \in Objects(Keys, TagValues) : SetTags(tags)
    \/ \E key \in Keys, value \in ExtraValues : SetExtra(key, value)
    \/ \E extras \in Objects(Keys, ExtraValues) : SetExtras(extras)
    \/ BuildEvent
    \/ \E i \in 1..MaxBuilds : BuildPayload(i)

SpecHub == InitHub /\ [][NextHub]_vars

\* The objects the caller passed as options.tags and options.user, by their
\* references: Config keeps them in its shallow copy of the options
\* ({ ...DEFAULT_OPTIONS, ...options }) and get('tags') / get('user') return
\* them.
OptionsTags == 1

OptionsUser == 3

\* A hub constructed from options that hold a tags object (which may be {})
\* and a user: the scope's tags are options.tags itself, an object being
\* truthy, and the scope's user is options.user.
InitScoped ==
    /\ \E rt \in {"browser", "node"} : PipelineIdle(rt)
    /\ last = [op |-> "constructor", n |-> 0]
    /\ TransportIdle
    /\ ModuleUnused
    /\ built = <<>>
    /\ \E tags \in Objects(Keys, TagValues), user \in Users :
          /\ heap = <<tags, EmptyObject, [k \in {"id"} |-> user]>>
          /\ scope = [tags |-> OptionsTags, user |-> OptionsUser, extras |-> 2]

NextScoped ==
    \/ \E user \in Users \cup {"null"} : SetUser(user)
    \/ \E key \in Keys, value \in TagValues : SetTag(key, value)
    \/ \E tags \in Objects(Keys, TagValues) : SetTags(tags)

SpecScoped == InitScoped /\ [][NextScoped]_vars

\* A client constructed from valid options, whose host then updates the
\* configuration and captures messages.
InitReconfig ==
    /\ \E rt \in {"browser", "node"} : PipelineIdle(rt)
    /\ TransportIdle
    /\ HubFresh
    /\ client = 0
    /\ \E options \in [dsn : Dsns, appId : {"set"}, commitHash : {"set"},
                       environment : {"absent", "Production"},
                       autoCapture : {"absent"}] :
          /\ clients = <<NewClient(runtime, options)>>
          /\ window = SetupGlobalHandlers(NoHandlers, runtime, options, 1)
    /\ last = [op |-> "new", n |-> 0]

NextReconfig ==
    \/ \E updates \in Updates : ConfigUpdate(updates)
    \/ \E message \in {"m"}, level \in {"Error", "Warning"} :
          CaptureMessage(message, level)

SpecReconfig == InitReconfig /\ [][NextReconfig]_vars

\* A page or a process whose host constructs clients itself and destroys
\* them in any order, while faults, signals and page events arrive.
InitHooks ==
    /\ \E rt \in {"browser", "node"} : PipelineIdle(rt)
    /\ TransportIdle
    /\ ModuleUnused
    /\ HubFresh
    /\ last = [op |-> "load", target |-> 0, kind |-> "none", reached |-> {}]

NextHooks ==
    \/ \E options \in ModuleOptions : NewClientCall(options)
    \/ \E i \in 1..MaxHookClients : Destroy(i)
    \/ OtherAssignsOnError
    \/ \E kind \in EventKinds("browser") \cup EventKinds("node") : Dispatch(kind)

SpecHooks == InitHooks /\ [][NextHooks]_vars

\* An express application on an initialized Node client: MaxRequests requests
\* fail, and their errorHandler calls and captures interleave.
InitExpress ==
    /\ runtime = "node"
    /\ storage = "ok"
    /\ queue = <<>>
    /\ isProcessingQueue = FALSE
    /\ drains = <<>>
    /\ captures = [r \in 1..MaxRequests |-> IdleCapture]
    /\ TransportIdle
    /\ ModuleUnused
    /\ built = <<>>
    /\ \E tags \in Objects(Keys, TagValues), extras \in Objects({"a"}, {"x"}) :
          /\ heap = <<tags, extras>>
          /\ scope = InitialScope
    /\ last = [op |-> "listen", request |-> 0]

NextExpress ==
    \/ \E r \in 1..MaxRequests : ErrorHandler(r)
    \/ \E r \in 1..MaxRequests, result \in {"id", "null"} : ErrorHandlerSettled(r, result)

SpecExpress == InitExpress /\ [][NextExpress]_vars

\* An express application with requestHandler before its routes and
\* errorHandler after them: MaxRouted requests arrive, each with or without a
\* user and a request id of its own, and each fails in its route.
InitRequests ==
    /\ runtime = "node"
    /\ storage = "ok"
    /\ queue = <<>>
    /\ isProcessingQueue = FALSE
    /\ drains = <<>>
    /\ \E users \in [1..MaxRouted -> BOOLEAN], ids \in [1..MaxRouted -> BOOLEAN] :
          captures = [r \in 1..MaxRouted |->
                         NewRequestOf(IF users[r] THEN RequestUser(r) ELSE "none",
                                      IF ids[r] THEN RequestId(r) ELSE "none")]
    /\ TransportIdle
    /\ ModuleUnused
    /\ HubFresh
    /\ last = [op |-> "listen", request |-> 0]

NextRequests ==
    \/ \E r \in 1..MaxRouted : RequestHandler(r)
    \/ \E r \in 1..MaxRouted : ErrorHandler(r)
    \/ \E r \in 1..MaxRouted, result \in {"id", "null"} : ErrorHandlerSettled(r, result)

SpecRequests == InitRequests /\ [][NextRequests]_vars

\* A browser client with an empty queue whose host has issued MaxConcurrent
\* capture calls in a row: each ran up to its first await and is suspended
\* in applyBeforeSend, none has resolved.  No drain starts and the page is not
\* unloaded.
InitConcurrent ==
    /\ runtime = "browser"
    /\ storage = "ok"
    /\ queue = <<>>
    /\ isProcessingQueue = FALSE
    /\ drains = <<>>
    /\ captures = [k \in 1..MaxConcurrent |->
                      [IdleCapture EXCEPT !.pc = "beforeSend", !.event = CapturedEvent(k)]]
    /\ last = [Step("capture") EXCEPT !.cap = MaxConcurrent,
                                      !.event = CapturedEvent(MaxConcurrent)]
    /\ OnlyPipeline

NextConcurrent ==
    \/ \E k \in DOMAIN captures, o \in HookOutcomes, onLine \in BOOLEAN :
           BeforeSendSettle(k, o, onLine)
    \/ \E k \in DOMAIN captures, r \in SendResults : SendSettle(k, r)

SpecConcurrent == InitConcurrent /\ [][NextConcurrent]_vars

\* A page or a process that has imported the module: the host calls init and
\* captureMessage, and the captures run to their end.  The scope holds the
\* tags of the options, if any.
InitDelivery ==
    /\ \E rt \in {"browser", "node"} : runtime = rt
    /\ storage = "ok"
    /\ queue = <<>>
    /\ isProcessingQueue = FALSE
    /\ drains = <<>>
    /\ captures = [k \in 1..MaxDeliveries |-> IdleCapture]
    /\ TransportIdle
    /\ ModuleUnused
    /\ built = <<>>
    /\ scope = InitialScope
    /\ \E tags \in Objects({"a"}, TagValues) : heap = <<tags, EmptyObject>>
    /\ last = [op |-> "import"]

NextDelivery ==
    \/ \E options \in ModuleOptions : ModuleInit(options)
    \/ \E k \in DOMAIN captures, message \in {"m"}, level \in {"absent", "Error"} :
           ModuleCaptureMessage(k, message, level)
    \/ \E k \in DOMAIN captures, o \in HookOutcomes, onLine \in BOOLEAN :
           BeforeSendSettle(k, o, onLine)
    \/ \E k \in DOMAIN captures, r \in SendResults : SendSettle(k, r)

SpecDelivery == InitDelivery /\ [][NextDelivery]_vars

\* A Node process with the global handlers installed, in which up to
\* MaxUncaught exceptions go uncaught.  Nothing of the process runs once it
\* has exited.
InitUncaught ==
    /\ runtime = "node"
    /\ storage = "ok"
    /\ queue = <<>>
    /\ isProcessingQueue = FALSE
    /\ drains = <<>>
    /\ captures = [k \in 1..MaxUncaught |-> NotThrown]
    /\ last = Step("setupGlobalHandlers")
    /\ OnlyPipeline

NextUncaught ==
    \/ \E k \in 1..MaxUncaught, value \in UncaughtValues : OnUncaughtException(k, value)
    \/ \E k \in 1..MaxUncaught, o \in HookOutcomes :
           ~Exited /\ BeforeSendSettle(k, o, TRUE)
    \/ \E k \in 1..MaxUncaught, r \in SendResults : ~Exited /\ SendSettle(k, r)
    \/ \E k \in 1..MaxUncaught : OnCaptureSettled(k)
    \/ \E k \in 1..MaxUncaught : ExitTimer(k)

SpecUncaught == InitUncaught /\ [][NextUncaught]_vars

\* A value the host threw, about to be normalized.
InitNormalize ==
    /\ \E rt \in {"browser", "node"} : PipelineIdle(rt)
    /\ OnlyPipeline
    /\ \E error \in ThrownValues : last = [op |-> "thrown", error |-> error]

NextNormalize == Normalize

SpecNormalize == InitNormalize /\ [][NextNormalize]_vars

\* The fill scenario: enqueue called FillCount times on an empty queue, with
\* events 1, 2, ... (last.cap counts the calls).
InitFill ==
    /\ runtime = "browser"
    /\ storage = "ok"
    /\ queue = <<>>
    /\ isProcessingQueue = FALSE
    /\ drains = <<>>
    /\ captures = <<>>
    /\ last = Step("constructor")
    /\ OnlyPipeline

FillEnqueue ==
    /\ last.cap < FillCount
    /\ queue' = Enqueue(BuiltEvent(last.cap + 1))
    /\ last' = [Step("enqueue") EXCEPT !.cap = last.cap + 1,
                                       !.event = BuiltEvent(last.cap + 1)]
    /\ UNCHANGED <<runtime, storage, isProcessingQueue, drains, captures>>
    /\ UNCHANGED <<transportVars, moduleVars, hubVars>>

NextFill == FillEnqueue

SpecFill == InitFill /\ [][NextFill]_vars

\* ------------------------------------------------------------------ claims


\* The step just taken is an enqueue call of sendEvent.
EnqueueStep ==
    \/ last.op = "sendEvent.offline"
    \/ last.op = "sendEvent.settled" /\ last.response = "failure" /\ runtime = "browser"

\* The events a returned flushQueue invocation sent with success.
SentOk(d) == {d.sent[i] : i \in {j \in 1..Len(d.sent) : j # d.failedAt}}

\* The events enqueued during a returned flushQueue invocation that its
\* write-back removed from the queue.
LostEnqueued(d) == {e \in Range(d.enq) : e \in Range(d.before) /\ e \notin Range(queue)}

\* C1: when a drain without concurrent enqueue (or unload flush) has its first
\* failed send at position k, the queue holds exactly events k..n of the queue
\* it read, in order, when the drain completes.
C1_DrainKeepsFailedAndUntried ==
    LET d == last.drain
    IN  (d.done /\ d.failedAt > 0 /\ d.enq = <<>> /\ ~d.unloaded)
            => queue = SubSeq(d.events, d.failedAt, Len(d.events))

\* C2: an event leaves the queue only in the unload flush, as the oldest entry
\* evicted by an enqueue at capacity, or at the completion of a drain that sent
\* it with success.
C2_RemovalDiscipline ==
    [][\A e \in Range(queue) \ Range(queue') :
          \/ last'.op = "onBeforeUnload"
          \/ /\ last'.op \in {"sendEvent.offline", "sendEvent.settled"}
             /\ AtCapacity(queue)
             /\ e = Head(queue)
          \/ /\ last'.drain.done
             /\ e \in SentOk(last'.drain)]_vars

\* C3 as stated: the write-back of a drain loses at most one of the events
\* enqueued while the drain was suspended.
C3_AtMostOneLost ==
    last.drain.done => Cardinality(LostEnqueued(last.drain)) <= 1

\* C3 as amended: a write-back that is performed removes every event enqueued
\* since the drain's read that is still in the queue; a drain that performs no
\* write-back removes none.
C3_WriteBackLosesAllEnqueued ==
    LET d == last.drain
    IN  d.done => LostEnqueued(d) =
                      IF d.wrote THEN Range(d.enq) \cap Range(d.before) ELSE {}

C3_TwoLost ==
    last.drain.done /\ Cardinality(LostEnqueued(last.drain)) = 2

\* C4: at most one flushQueue invocation is in progress, the flag says whether
\* one is; a flushQueue call made while one is in progress returns without
\* reading or writing the queue and without a send, and a drain only ever
\* begins in the step of a flushQueue call made while none is in progress.
C4_DrainGuard ==
    /\ [](Len(drains) <= 1 /\ (isProcessingQueue <=> drains # <<>>))
    /\ [][/\ (isProcessingQueue /\ last'.op = "flushQueue")
               => /\ last'.flush = "skipped"
                  /\ last'.event = NoEvent
                  /\ UNCHANGED <<queue, drains, isProcessingQueue>>
          /\ Len(drains') > Len(drains)
               => last'.op = "flushQueue" /\ ~isProcessingQueue]_vars

C4_Skipped ==
    last.op = "flushQueue" /\ last.flush = "skipped" /\ Len(drains) = 1

\* C5 as stated: in either runtime, a capture whose send resolved with
\* success=false has its event at the end of the offline queue and resolves
\* to null.
C5_FailureEnqueuesEveryRuntime ==
    (last.op = "sendEvent.settled" /\ last.response = "failure")
        => /\ captures[last.cap].result = "null"
           /\ queue # <<>>
           /\ queue[Len(queue)] = last.event

\* C5 as amended: such a capture resolves to null; in the browser client its
\* event is at the end of the offline queue; the Node client queues nothing.
C5_FailureEnqueuesBrowserOnly ==
    (last.op = "sendEvent.settled" /\ last.response = "failure")
        => /\ captures[last.cap].pc = "done"
           /\ captures[last.cap].result = "null"
           /\ IF runtime = "browser"
              THEN queue # <<>> /\ queue[Len(queue)] = last.event
              ELSE queue = <<>>

C5_BrowserFailureQueued ==
    /\ runtime = "browser"
    /\ last.op = "sendEvent.settled" /\ last.response = "failure"
    /\ queue # <<>> /\ queue[Len(queue)] = last.event
    /\ captures[last.cap].result = "null"

\* C6: the offline queue never holds more than MAX_QUEUE_SIZE events.
C6_QueueBounded == Len(queue) <= MAX_QUEUE_SIZE

C6_EvictedAtCapacity ==
    /\ EnqueueStep
    /\ Len(queue) = MAX_QUEUE_SIZE
    /\ queue[1] = BuiltEvent(2)
    /\ queue[Len(queue)] = last.event

\* C7: after n enqueue calls with events 1..n on an empty queue, the queue
\* holds the latest Min(n, MAX_QUEUE_SIZE) of them in insertion order: every
\* call appends at the end, and a call at capacity removes the oldest entry
\* and nothing else.
C7_FifoEviction ==
    LET n == last.cap
        m == Min(n, MAX_QUEUE_SIZE)
    IN  queue = [i \in 1..m |-> BuiltEvent(n - m + i)]

C7_Enqueued101 ==
    /\ last.cap = MAX_QUEUE_SIZE + 1
    /\ Len(queue) = MAX_QUEUE_SIZE
    /\ BuiltEvent(1) \notin Range(queue)
    /\ queue[1] = BuiltEvent(2)
    /\ queue[MAX_QUEUE_SIZE] = BuiltEvent(MAX_QUEUE_SIZE + 1)

\* C8: a drain whose sends all succeed, with no enqueue during it, has called
\* send once for each event it read, in order, and leaves the queue empty.
C8_DrainFullSuccess ==
    LET d == last.drain
    IN  (d.done /\ d.failedAt = 0 /\ d.enq = <<>>)
            => d.sent = d.events /\ queue = <<>>

C8_DrainedSeveral ==
    LET d == last.drain
    IN  /\ d.done /\ d.failedAt = 0 /\ d.enq = <<>> /\ ~d.unloaded
        /\ Len(d.events) >= 2
        /\ d.sent = d.events
        /\ queue = <<>>

\* C9: when the hook returns null or undefined, the capture is over and has
\* resolved to null, no send was called for it and its event is not in the
\* queue; a capture that is over never acts again.
C9_BeforeSendDrop ==
    /\ [](last.hook \in {"null", "undefined"}
            => /\ last.op = "sendEvent.dropped"
               /\ captures[last.cap].pc = "done"
               /\ captures[last.cap].result = "null"
               /\ captures[last.cap].sent = NoEvent
               /\ \A i \in 1..Len(queue) : queue[i].id # captures[last.cap].event.id)
    /\ [][\A k \in DOMAIN captures :
              captures[k].pc = "done" => captures'[k] = captures[k]]_vars

C9_Dropped ==
    /\ last.op = "sendEvent.dropped"
    /\ last.hook = "undefined"
    /\ captures[last.cap].result = "null"
    /\ captures[last.cap].sent = NoEvent

C11_CaptureNeverDisrupts ==
    /\ [](\A k \in DOMAIN captures :
             /\ captures[k].result \in {"pending", "null", "id"}
             /\ (captures[k].pc = "done") <=> (captures[k].result # "pending"))
    /\ [][\A k \in DOMAIN captures :
             /\ captures[k].pc = "done" => captures'[k] = captures[k]
             /\ (captures'[k].result = "id" /\ captures[k].result # "id")
                  => /\ last'.op = "sendEvent.settled"
                     /\ last'.cap = k
                     /\ last'.response = "success_id"]_vars

\* A capture whose callback threw has resolved to null, and another one has
\* just resolved to null after a failed send on a localStorage that rejects
\* the write.
C11_FaultsSwallowed ==
    /\ storage = "quota"
    /\ last.op = "sendEvent.settled"
    /\ last.response = "failure"
    /\ captures[last.cap].result = "null"
    /\ \E k \in DOMAIN captures :
          captures[k].pc = "done" /\ captures[k].event = NoEvent /\ captures[k].result = "null"

\* A send call has returned its final answer.
SendSettled == request.pc = "settled"

\* The response that settled the send carried a status outside 200..299.
Non2xx == request.cause = "response" /\ (request.status < 200 \/ request.status > 299)

\* The response that settled the send carried a 2xx status and a body that
\* is no JSON.
NonJson2xx == request.cause = "response" /\ ~Non2xx /\ request.body = "not_json"

\* C12 as stated: send never rejects, and every failure mode (an exception
\* while building the request, a network error, a timeout, a refused beacon,
\* a non-2xx status, a malformed response body) makes it resolve with
\* success = false.
C12_EveryFailureResolvesFalse ==
    /\ request.result.settled # "rejected"
    /\ SendSettled =>
          /\ request.result.settled = "resolved"
          /\ (\/ request.cause \in {"build_throws", "network_error", "timeout", "refused"}
              \/ Non2xx
              \/ NonJson2xx) => ~request.result.success

\* C12 as amended: send never rejects.  An exception while building the
\* request, a network error, a timeout, a refused beacon and a non-2xx status
\* make it resolve with success = false.  A 2xx response whose body is no
\* JSON, or is JSON but no object, makes the fetch transport resolve with
\* success = false and the Node transport resolve with success = true and no
\* id.
C12_NeverRejects ==
    /\ request.result.settled # "rejected"
    /\ SendSettled =>
          /\ request.result.settled = "resolved"
          /\ (\/ request.cause \in {"build_throws", "network_error", "timeout", "refused"}
              \/ Non2xx) => ~request.result.success
          /\ (request.cause = "response" /\ ~Non2xx
                 /\ request.body \in {"not_json", "non_object"})
              => /\ request.result.success <=> (request.transport = "node")
                 /\ ~request.result.hasId

\* The fetch transport has resolved with success = false after response.json()
\* rejected on a 2xx response.
C12_FetchCaughtMalformedBody ==
    /\ SendSettled
    /\ request.transport = "fetch"
    /\ NonJson2xx
    /\ request.result.settled = "resolved"
    /\ ~request.result.success

\* C13: in the fetch and the Node transport, a 2xx response whose body is no
\* valid JSON resolves to success = true with no id.
C13_NonJson2xxIsSuccess ==
    (SendSettled /\ NonJson2xx)
        => /\ request.result.settled = "resolved"
           /\ request.result.success
           /\ ~request.result.hasId

\* C14: in the fetch and the Node transport, a response whose status is
\* outside 200..299 resolves to success = false with statusCode equal to the
\* status and nothing else that depends on the response; the fetch transport
\* does not read the body, the Node transport does not parse it.
C14_Non2xxFailsWithStatus ==
    (SendSettled /\ Non2xx)
        => /\ request.result = [settled |-> "resolved", success |-> FALSE,
                                hasId |-> FALSE, statusCode |-> request.status,
                                error |-> TRUE]
           /\ request.transport = "fetch" => request.body = "none"

\* A 404 whose body claims success with an id has resolved to a failure with
\* statusCode 404.
C14_Failed404 ==
    /\ SendSettled
    /\ request.transport = "node"
    /\ request.status = 404
    /\ request.body = "success_id"
    /\ request.result.statusCode = 404
    /\ ~request.result.success

\* A send call is waiting for the endpoint.
SendPending == request.pc \in {"fetch", "json", "request"}

\* C15: every send of the fetch and of the Node transport is bounded by a
\* timeout: a send that is waiting for the endpoint eventually resolves, even
\* when the endpoint never responds.
C15_EverySendResolves == SendPending ~> (request.result.settled = "resolved")

\* C15 for the Node transport alone, whose request carries timeout: 10000.
C15_NodeSendResolves ==
    (request.transport = "node" /\ SendPending) ~> (request.result.settled = "resolved")

\* C16: at most one client is active at any time: only the client the module
\* holds has hooks installed.  An init call made while a client is active
\* constructs nothing, installs nothing, leaves that client and its
\* configuration in place and does not throw, whatever its options; and every
\* capture or scope call of the module goes to the client the module holds.
C16_SingletonInit ==
    /\ [](\A i \in 1..Len(clients) :
             (clients[i].handlers \/ clients[i].listeners) => i = client)
    /\ [][(last'.op = "init" /\ client # 0)
            => /\ client' = client
               /\ clients' = clients
               /\ last'.outcome = "already initialized"]_vars
    /\ [][last'.op = "call"
            => /\ last'.to = client
               /\ client' = client
               /\ \A i \in 1..Len(clients) : i # client => clients'[i] = clients[i]]_vars

\* An init call with valid options has just been ignored: the first client is
\* still the only one.
C16_SecondInitIgnored ==
    /\ last.op = "init"
    /\ last.outcome = "already initialized"
    /\ ConfigError(last.options) = "none"
    /\ client = 1
    /\ Len(clients) = 1

\* The caller gave a non-empty dsn, appId and commitHash.
RequiredGiven(o) == o.dsn = "set" /\ o.appId = "set" /\ o.commitHash = "set"

\* C17 as stated: construction succeeds if and only if dsn, appId and
\* commitHash are non-empty and environment is given as one of Production,
\* Staging, Development.
C17_ValidIffAllFourGiven ==
    last.op = "new" =>
        (last.outcome = "constructed"
            <=> /\ RequiredGiven(last.options)
                /\ last.options.environment \in {"Production", "Staging", "Development"})

\* C17 as amended: construction succeeds if and only if dsn, appId and
\* commitHash are non-empty and environment is one of Production, Staging,
\* Development or is not given at all, in which case the client is
\* constructed with environment Development.  Otherwise the constructor
\* throws and no client exists.
C17_ValidIffRequiredAndEnvironment ==
    last.op = "new" =>
        /\ last.outcome = "constructed"
             <=> /\ RequiredGiven(last.options)
                 /\ last.options.environment \in
                        {"absent", "Production", "Staging", "Development"}
        /\ last.outcome = "constructed"
             => /\ Len(clients) = 1
                /\ clients[1].config.environment =
                      IF last.options.environment = "absent" THEN "Development"
                      ELSE last.options.environment
        /\ last.outcome # "constructed" => clients = <<>>

\* A client has been constructed from options without an environment.
C17_DefaultEnvironment ==
    /\ last.op = "new"
    /\ last.options.environment = "absent"
    /\ last.outcome = "constructed"
    /\ clients[1].config.environment = "Development"

\* C18: an init call with an invalid configuration throws to its caller and
\* leaves no trace: no client is registered, none is constructed, no hook is
\* installed, no drain is started.  An init call with valid options made
\* while no client is active, after any number of failed ones, constructs
\* and registers a client.
C18_FailedInitLeavesNoTrace ==
    /\ [][(last'.op = "init" /\ client = 0 /\ ConfigError(last'.options) # "none")
            => /\ last'.outcome = ConfigError(last'.options)
               /\ client' = 0
               /\ clients' = clients
               /\ UNCHANGED pipelineVars]_vars
    /\ [][(last'.op = "init" /\ client = 0 /\ ConfigError(last'.options) = "none")
            => /\ last'.outcome = "constructed"
               /\ client' = Len(clients')
               /\ Len(clients') = Len(clients) + 1]_vars

\* An init call with valid options has succeeded right after one that threw.
C18_InitAfterFailure ==
    /\ last.op = "init"
    /\ last.afterThrow
    /\ last.outcome = "constructed"
    /\ client = 1
    /\ Len(clients) = 1

\* C19: an event buildEvent has returned holds the tags, metadata and user it
\* was built with, whatever setUser, setTag, setTags, setExtra and setExtras
\* calls follow.
C19_SnapshotIsolation ==
    \A i \in 1..Len(built) : Contents(heap, built[i].event) = built[i].held

\* An event was built with tags, and a scope call has since given the scope
\* other tags than the event holds.
C19_ScopeChangedAfterBuild ==
    /\ Len(built) >= 1
    /\ built[1].event.tags # 0
    /\ last.op \in {"setTag", "setTags"}
    /\ heap[scope.tags] # built[1].held.tags

\* C20: the scope's extras never hold a key whose value is undefined, after
\* any sequence of setExtra and setExtras calls.
C20_NoUndefinedExtras ==
    \A key \in DOMAIN heap[scope.extras] : heap[scope.extras][key] # "undefined"

\* A serialized metadata map with no entry at all: "metadata":{}.
EmptyMap(metadata) ==
    DOMAIN metadata.extras = {} /\ metadata.tags = <<>> /\ metadata.user = <<>>

\* C21: the serialized payload of a built event never has a metadata field
\* (nor a tags field) whose value is an empty map, in any scope state: the
\* metadata field is there only when something is left in it after
\* serialization.
C21_NoEmptyMapOnWire ==
    last.op = "buildPayload" =>
        /\ last.body.metadata # <<>> => ~EmptyMap(last.body.metadata[1])
        /\ last.body.metadata # <<>> =>
              \/ last.body.metadata[1].tags = <<>>
              \/ DOMAIN last.body.metadata[1].tags[1] # {}

\* What does hold: the payload object's metadata field is set exactly when the
\* metadata object has an own key before serialization, and tags are sent only
\* when there is at least one tag.
C21_MetadataIffOwnKeys ==
    last.op = "buildPayload" =>
        LET held == built[last.event].held
        IN  /\ last.body.metadata # <<>> <=>
                  \/ DOMAIN held.metadata # {}
                  \/ DOMAIN held.tags # {}
                  \/ built[last.event].event.user # 0
            /\ last.body.metadata # <<>> =>
                  \/ last.body.metadata[1].tags = <<>>
                  \/ DOMAIN last.body.metadata[1].tags[1] # {}

\* C22: every event buildEvent produces on a constructed client has a
\* non-empty appId and commitHash, a recognized environment, a level and a
\* message, whatever getConfig().update calls came before.
C22_BuiltEventIdentity ==
    last.op = "captureMessage" =>
        /\ ~Missing(last.event.appId)
        /\ ~Missing(last.event.commitHash)
        /\ last.event.environment \in VALID_ENVIRONMENTS
        /\ ~Missing(last.event.level)
        /\ ~Missing(last.event.message)

\* C30: every send posts to the currently configured dsn, its trailing slash
\* stripped, followed by /api/ingest-error, whatever configuration updates
\* came before.
C30_PostsToConfiguredDsn ==
    last.op = "captureMessage" =>
        last.url = StripSlash(clients[1].config.dsn) \o "/api/ingest-error"

\* C23: the page-unload flush calls the beacon transport's send exactly once
\* for every event in the queue at that moment, in queue order, awaits no
\* result, and leaves the queue empty whether sendBeacon queued the events,
\* refused them or threw.
C23_UnloadFlush ==
    [][last'.op = "onBeforeUnload" =>
          /\ last'.beaconed = QueueGet
          /\ QueueGet' = <<>>
          /\ isProcessingQueue' = isProcessingQueue
          /\ captures' = captures]_vars

\* An unload flush has just handed several queued events to a sendBeacon
\* that refused them, and the queue is empty.
C23_FlushedSeveralRefused ==
    /\ last.op = "onBeforeUnload"
    /\ Len(last.beaconed) >= 2
    /\ last.response = "refused"
    /\ queue = <<>>

\* C24: once destroy() of a client has returned, no global fault, no
\* termination signal and no online, visibilitychange or beforeunload event
\* reaches that client: it neither captures, drains, beacon-flushes nor exits
\* the process.
C24_DestroyedNeverReached ==
    last.op = "event" => \A i \in last.reached : ~clients[i].destroyed

\* What does hold: the listeners added with addEventListener or process.on are
\* removed for good, so only window's error event reaches a destroyed client.
C24_ListenersDetached ==
    (last.op = "event" /\ last.kind # "error") =>
        \A i \in last.reached : ~clients[i].destroyed

\* C25: disposing one installation of the browser global handlers, in any
\* order, removes only its own handler: the handlers of the other live
\* installations and of another party stay in place, the handler of a
\* disposed installation is never put back, and once every installation is
\* disposed window.onerror is what it was before the first (null), unless
\* another party's handler is in place.
C25_InstallationsCompose ==
    /\ [](runtime = "browser" =>
            /\ \A i \in OnErrorCalls(window, window.onerror) : ~clients[i].destroyed
            /\ ((\A i \in 1..Len(clients) : clients[i].destroyed)
                    /\ window.onerror # OtherHandler) => window.onerror = 0)
    /\ [][(runtime = "browser" /\ last'.op = "destroy") =>
              /\ \A j \in OnErrorCalls(window, window.onerror) \ {last'.target} :
                    clients[j].handlers => j \in OnErrorCalls(window', window'.onerror)
              /\ window.onerror = OtherHandler => window'.onerror = OtherHandler]_vars

\* C26: whatever the interleaving of errorHandler calls for concurrent failing
\* requests, the event captured for a request carries that request's own
\* metadata under the 'request' extra, and once no capture is in flight the
\* scope has no 'request' extra.
C26_OwnRequestContext ==
    /\ \A r \in 1..Len(captures) :
          captures[r].pc # "idle" =>
              LET metadata == Contents(heap, built[captures[r].event].event).metadata
              IN  /\ "request" \in DOMAIN metadata
                  /\ metadata["request"] = RequestMetadata(r)
    /\ (\A r \in 1..Len(captures) : captures[r].pc # "send") =>
          "request" \notin DOMAIN heap[scope.extras]

\* The capture of request 1 has settled and its .finally callback cleared the
\* extra while request 2, whose errorHandler ran in between, is still in
\* flight, its event holding its own metadata.
C26_ClearedWhileOtherInFlight ==
    /\ captures[1].pc = "done"
    /\ captures[2].pc = "send"
    /\ "request" \notin DOMAIN heap[scope.extras]
    /\ built[captures[2].event].held.metadata["request"] = RequestMetadata(2)

\* C27: when capture calls overlap and their sends fail, with no drain and no
\* unload flush in between, every failure appends its event to the offline
\* queue and leaves the events queued before it in place, so the events of
\* two failing captures are both queued, in the order of the failures.
C27_FailuresBothQueued ==
    [][/\ \A i \in 1..Len(queue) : i <= Len(queue') /\ queue'[i] = queue[i]
       /\ (last'.op = "sendEvent.settled" /\ last'.response = "failure") =>
              /\ captures[last'.cap].pc = "send"
              /\ queue' = Append(queue, captures[last'.cap].sent)
              /\ captures'[last'.cap].result = "null"]_vars

\* Two captures issued before either resolved have both had their sends
\* fail: the second failure has just been queued behind the first.
C27_TwoFailuresQueued ==
    /\ last.op = "sendEvent.settled"
    /\ last.response = "failure"
    /\ \E j \in DOMAIN captures :
          /\ j # last.cap
          /\ queue = <<captures[j].sent, captures[last.cap].sent>>
          /\ captures[j].sent # captures[last.cap].sent

\* The entry of built for the capture whose send has just settled.
Delivered == CHOOSE b \in Range(built) : b.cap = last.cap

\* The capture whose send has just settled was made on an empty scope, and
\* its event reached the transport as buildEvent made it.
PlainDelivery ==
    /\ last.op = "sendEvent.settled"
    /\ last.response = "success_id"
    /\ last.event.body = "built"
    /\ Delivered.held = [tags |-> EmptyObject, metadata |-> EmptyObject, user |-> EmptyObject]

\* C28: after init with valid options and an empty scope, a captureMessage
\* whose send succeeds with an id resolves to the id; the payload carries the
\* configured appId, commitHash and environment, the given level and message
\* and no metadata; and the event is not in the offline queue.
C28_SuccessfulDelivery ==
    PlainDelivery =>
        LET body == Body(heap, Delivered.identity, Delivered.event)
            config == clients[client].config
        IN  /\ captures[last.cap].result = "id"
            /\ body.appId = config.appId /\ ~Missing(body.appId)
            /\ body.commitHash = config.commitHash /\ ~Missing(body.commitHash)
            /\ body.environment = config.environment
            /\ body.environment \in VALID_ENVIRONMENTS
            /\ body.level = LevelGiven(Delivered.given.level)
            /\ body.message = Delivered.given.message
            /\ body.metadata = <<>>
            /\ last.event \notin Range(queue)

\* A message captured on an empty scope of a client configured for
\* Production has been delivered and has resolved to the id.
C28_DeliveredFromProduction ==
    /\ PlainDelivery
    /\ clients[client].config.environment = "Production"
    /\ captures[last.cap].result = "id"

\* C29: when localStorage rejects the write (quota exceeded) or every access
\* (unavailable), an enqueue call returns without throwing: the capture it
\* belongs to resolves to null in that step, and what localStorage holds is
\* left as it was.
C29_EnqueueNeverFails ==
    [][(EnqueueStep' /\ storage # "ok") =>
          /\ queue' = queue
          /\ captures[last'.cap].pc # "done"
          /\ captures'[last'.cap].pc = "done"
          /\ captures'[last'.cap].result = "null"]_vars

\* A failed send has just called enqueue on a localStorage that rejects every
\* access and holds an event from an earlier page: the capture resolved to
\* null and the stored event is still there.
C29_EnqueueOnUnavailableStorage ==
    /\ storage = "unavailable"
    /\ last.op = "sendEvent.settled"
    /\ last.response = "failure"
    /\ captures[last.cap].result = "null"
    /\ queue = Persisted(1)

\* C31: normalizeError never throws, whatever it is given, and returns an
\* error whose message is the Error's own, the string itself, the object's
\* message field else its reason field else the string conversion of the
\* object, or the string conversion of the primitive; an object's stack and
\* name are carried over when present.
C31_NormalizerTotal ==
    last.op = "normalizeError" =>
        LET e == last.error
            r == last.result
        IN  /\ ~r.threw
            /\ e.kind = "Error" => r.from = "self"
            /\ e.kind = "string" => r.from = "string"
            /\ e.kind = "object" =>
                  /\ r.from = IF Truthy(e.message) THEN "message"
                              ELSE IF Truthy(e.reason) THEN "reason"
                              ELSE "String"
                  /\ e.stack = "given" => r.stack = "given"
                  /\ e.name = "given" => r.name = "given"
            /\ e.kind \in {"null", "undefined", "number", "boolean"} =>
                  r.from = "String"

\* What does hold: the same for every value except an object with neither a
\* truthy message nor a truthy reason whose string conversion throws.
C31_TotalOnConvertible ==
    (last.op = "normalizeError" /\ last.result.threw) =>
        /\ last.error.kind = "object"
        /\ ~last.error.convertible
        /\ ~Truthy(last.error.message)
        /\ ~Truthy(last.error.reason)

\* C32: within one drain the sends are issued one at a time and in the order
\* of the queue, oldest first: a suspended drain has called send on the first
\* idx events it read and awaits the last of them; it moves to the next event
\* only when the send before it resolved, and with success; a drain that
\* returns has attempted nothing after the first event that failed.
C32_DrainInOrder ==
    /\ \A i \in 1..Len(drains) :
          /\ drains[i].idx \in 1..Len(drains[i].events)
          /\ drains[i].sent = SubSeq(drains[i].events, 1, drains[i].idx)
    /\ (last.op = "flushQueue" /\ last.flush = "started") =>
          /\ drains[Len(drains)].events = QueueGet
          /\ last.event = QueueGet[1]
    /\ last.op = "flushQueue.next" => last.response = "success"
    /\ (last.op = "flushQueue.done" /\ last.drain.done) =>
          last.drain.sent =
              SubSeq(last.drain.events, 1,
                     IF last.drain.failedAt = 0 THEN Len(last.drain.events)
                     ELSE last.drain.failedAt)

\* A drain of three events returned after its second send failed.
C32_StoppedAtSecondOfThree ==
    /\ last.op = "flushQueue.done"
    /\ Len(last.drain.events) = 3
    /\ last.drain.failedAt = 2
    /\ Len(last.drain.sent) = 2

\* C33: no event is accepted by the ingestion endpoint more than once.  When
\* the unload flush runs and the beacon transport accepts the events handed
\* to it, none of them is an event that a drain still running has already
\* sent with success.
C33_AtMostOnce ==
    (last.op = "onBeforeUnload" /\ last.response = "queued") =>
        \A i \in 1..Len(drains) :
            \A j \in 1..(drains[i].idx - 1) :
                drains[i].events[j] \notin Range(last.beaconed)

\* C34: the unload flush is final for a running drain: when a drain returns
\* that was suspended in a send while the unload flush ran, the queue holds
\* none of the events the unload flush handed to the beacon transport, the
\* events the drain had read among them.
C34_UnloadFlushFinal ==
    (last.op = "flushQueue.done" /\ last.drain.unloaded) =>
        \A e \in Range(last.drain.events) : e \notin Range(QueueGet)

\* The first unload flush after a drain's read hands every event the drain
\* read to the beacon transport.
C34_DrainEventsBeaconed ==
    [][last'.op = "onBeforeUnload" =>
          \A i \in 1..Len(drains) :
              ~drains[i].unloaded =>
                  Range(drains[i].events) \subseteq Range(last'.beaconed)]_vars

\* C35: the drain-in-progress flag is set exactly while a flushQueue
\* invocation is executing, and, every send resolving in the end, a set flag
\* is reset: every started drain returns, so a later trigger finds the guard
\* open again.
C35_GuardReleased ==
    /\ [](isProcessingQueue <=> drains # <<>>)
    /\ (isProcessingQueue ~> ~isProcessingQueue)

\* A trigger that came after the constructor's drain had failed and returned
\* starts a new drain with the event written back.
C35_LaterDrainStarted ==
    /\ last.op = "flushQueue"
    /\ last.flush = "started"
    /\ isProcessingQueue
    /\ last.event \in Range(Persisted(MaxDrainQueue))

\* What the hook made of the event of capture k, given its outcome: the event
\* it returned, or the event it was given when none is configured or when it
\* threw or rejected.
HookOutput(k, outcome) ==
    IF outcome = "changed"
    THEN [id |-> captures[k].event.id, body |-> "changed"]
    ELSE captures[k].event

\* C36: beforeSend runs exactly once per captured event: a capture enters the
\* hook only from the capture call; what sendEvent sends or queues is the
\* hook's output; and a drain or the unload flush re-sends the queued events
\* as they are stored, without a capture entering the hook again.
C36_HookOncePerEvent ==
    /\ [](/\ last.op \in {"sendEvent.offline", "sendEvent.send"} =>
                last.event = HookOutput(last.cap, last.hook)
          /\ last.op = "sendEvent.send" =>
                captures[last.cap].sent = last.event
          /\ (last.op = "sendEvent.offline" /\ storage = "ok") =>
                QueueGet[Len(QueueGet)] = last.event
          /\ (last.op = "sendEvent.settled" /\ ~Success(last.response)
                /\ runtime = "browser" /\ storage = "ok") =>
                QueueGet[Len(QueueGet)] = captures[last.cap].sent
          /\ (last.op = "flushQueue" /\ last.flush = "started") =>
                last.event = QueueGet[1]
          /\ last.op = "flushQueue.next" =>
                \E i \in 1..Len(drains) :
                    last.event = drains[i].events[drains[i].idx])
    /\ [][/\ \A k \in DOMAIN captures :
                (captures'[k].pc = "beforeSend" /\ captures[k].pc # "beforeSend") =>
                    (captures[k].pc = "idle" /\ last'.op = "capture")
          /\ last'.op \in {"flushQueue", "flushQueue.next", "flushQueue.done",
                           "onBeforeUnload"} =>
                /\ captures' = captures
                /\ Range(last'.beaconed) \subseteq Range(QueueGet)]_vars

\* A drain sends an event that a hook had changed before it was queued.
C36_DrainSendsChangedEvent ==
    /\ last.op = "flushQueue"
    /\ last.flush = "started"
    /\ last.event = [id |-> CapturedEvent(1).id, body |-> "changed"]
    /\ captures[1].pc = "done"

\* C37 as stated: when the browser reports offline at the moment an event
\* passes beforeSend, the transport's send is not called for it, the event is
\* appended to the offline queue and the capture resolves to null.
C37_OfflineGateAppends ==
    [][/\ (last'.op = "sendEvent.send" /\ runtime = "browser") => last'.onLine
       /\ last'.op = "sendEvent.offline" =>
             /\ runtime = "browser"
             /\ ~last'.onLine
             /\ captures'[last'.cap].pc = "done"
             /\ captures'[last'.cap].sent = NoEvent
             /\ captures'[last'.cap].result = "null"
             /\ QueueGet' = Enqueued(QueueGet, last'.event)]_vars

\* C37, amended: the same, the event being appended when localStorage takes
\* the write; a write it rejects leaves the stored queue as it was.
C37_OfflineGate ==
    [][/\ (last'.op = "sendEvent.send" /\ runtime = "browser") => last'.onLine
       /\ last'.op = "sendEvent.offline" =>
             /\ runtime = "browser"
             /\ ~last'.onLine
             /\ captures'[last'.cap].pc = "done"
             /\ captures'[last'.cap].sent = NoEvent
             /\ captures'[last'.cap].result = "null"
             /\ queue' = IF storage = "ok"
                         THEN Enqueued(queue, last'.event)
                         ELSE queue]_vars

\* An event gated offline has been appended behind a stored one.
C37_QueuedBehindStored ==
    /\ last.op = "sendEvent.offline"
    /\ storage = "ok"
    /\ Len(queue) = 2
    /\ queue[2] = last.event
    /\ captures[last.cap].result = "null"

\* C38: the event captured for a request never carries the user or the
\* requestId tag that requestHandler set for a different request.
C38_NoCrossRequestIdentity ==
    \A r \in 1..Len(captures) :
        captures[r].pc \in {"send", "done"} =>
            LET held == built[captures[r].event].held
            IN  /\ "id" \in DOMAIN held.user => held.user["id"] = captures[r].user
                /\ "requestId" \in DOMAIN held.tags =>
                      held.tags["requestId"] = captures[r].requestId

\* C39: scope mutations leave the configuration untouched: no setTag, setTags
\* or setUser call changes the tags object or the user object the caller
\* passed at construction, which are what the configuration returns for the
\* tags and user options.
C39_ScopeLeavesConfig ==
    [][last'.op \in {"setTag", "setTags", "setUser"} =>
          /\ heap'[OptionsTags] = heap[OptionsTags]
          /\ heap'[OptionsUser] = heap[OptionsUser]]_vars

\* What does hold: setTags and setUser leave both objects alone, and so does
\* a setTag made after a setTags call, the scope then having a tags object of
\* its own.
C39_OnlyFirstSetTagWrites ==
    [][(last'.op \in {"setTags", "setUser"}
          \/ (last'.op = "setTag" /\ scope.tags # OptionsTags)) =>
          /\ heap'[OptionsTags] = heap[OptionsTags]
          /\ heap'[OptionsUser] = heap[OptionsUser]]_vars

\* C40: for every uncaught exception observed while the handlers are
\* installed, captureException is called exactly once, with level Critical;
\* the exit is scheduled only after that capture has settled, and the process
\* never exits with code 1 before the capture has settled.
C40_ExitAfterCapture ==
    \A k \in DOMAIN captures :
        captures[k].pc # "idle" =>
            /\ captures[k].calls = 1
            /\ captures[k].level = "Critical"
            /\ captures[k].timer # "none" => captures[k].pc = "done"
            /\ ExitedByTimer => captures[k].pc = "done"

\* What does hold: an exception whose handler did not throw is captured
\* exactly once with level Critical, and its own exit timer is set only after
\* its capture has settled.
C40_OwnExitAfterCapture ==
    \A k \in DOMAIN captures :
        captures[k].pc \notin {"idle", "handler threw"} =>
            /\ captures[k].calls = 1
            /\ captures[k].level = "Critical"
            /\ captures[k].timer # "none" => captures[k].pc = "done"

\* The process exits on the timer of the first exception while the capture
\* of the second is still in its send.
C40_ExitDuringSecondCapture ==
    /\ captures[1].timer = "fired"
    /\ captures[2].pc = "send"

====
